---- MODULE Spec2Model ----
(***************************************************************************)
(* Verification model of feishu2md's synchronization engine:              *)
(*   - core/ratelimiter.go   FeishuRateLimiter (two rate.Limiter buckets)  *)
(*   - core/client.go        the rate-limited remote-store client          *)
(*   - cmd/download.go       downloadDocument / downloadWikiChildren       *)
(*   - picgo                 BatchUpload and the durable upload cache      *)
(* Each part has its own specification (SpecRL, ...) over the shared       *)
(* variables; the variables of the other parts stay at their initial value.*)
(***************************************************************************)
EXTENDS Integers, Sequences, FiniteSets, TLC

\* the state of the wiki-tree run (Part 2)
VARIABLES cfg, remote, run, clock, mainPc, nextIdx, sem, wg, errChan, closed,
          retErr, crashed, task, files, stats, remoteLog, runWrites, faulted

\* the image directory, the picgo upload cache (file and memory) and its persist goroutines
VARIABLES imgFiles, imgDir, cacheFile, cacheMem, loaded, persistPending, runUploads

imgVars == <<imgFiles, imgDir, cacheFile, cacheMem, loaded, persistPending, runUploads>>

syncVars == <<cfg, remote, run, clock, mainPc, nextIdx, sem, wg, errChan, closed,
              retErr, crashed, task, files, stats, remoteLog, runWrites, faulted, imgVars>>

\* the wiki tree and its resolution: the remote nodes' parent and title, the
\* --category-level option, GetAllChildNodes' result and recursion, the path map,
\* and the tags and category given to each document task
VARIABLES tree, categoryLevel, allNodes, pathMap, stack, pendingList, listed, opts

treeVars == <<tree, categoryLevel, allNodes, pathMap, stack, pendingList, listed, opts>>

\* picgo's upload cache step by step: the goroutines inside GetCached or
\* SaveCache, the state of the cache file on disk, the tokens whose SaveCache has
\* returned, the persistCache goroutines, and the number of calls made
VARIABLES gor, cacheDisk, saved, writers, cacheCalls

cacheVars == <<gor, cacheDisk, saved, writers, cacheCalls>>

\* logCollector.logs, the DocLog entries of the run
VARIABLES logs

reportVars == <<logs>>

\* one paginated listing call: the pages the remote holds for the node, and the
\* state of the call (GetChildNodes or GetWikiNodeList)
VARIABLES pgRemote, lst

listVars == <<pgRemote, lst>>

\* two tasks whose documents have the same output path: the file at that path
\* and each task's position in os.WriteFile
VARIABLES target, cw

collideVars == <<target, cw>>

\* downloadWiki (whole-wiki mode): the traversal and its document tasks
VARIABLES wiki, wt

\* the image worker pool of one document: the main goroutine with its two
\* channels, and the workers
VARIABLES pl, wk

\* the --clean-output option, and the output directory as the run found it
VARIABLES cleanOutput, before

\* one SanitizeFileName call: its argument, the title as rewritten so far, the
\* replacement rules not yet applied, and its result
VARIABLES san

lateVars == <<wiki, wt, pl, wk, cleanOutput, before, san>>

moreVars == <<reportVars, listVars, collideVars, lateVars>>

extVars == <<treeVars, cacheVars, moreVars>>

(***************************************************************************)
(* Part 1.  FeishuRateLimiter.                                             *)
(* Time advances in ticks of TickMs milliseconds.  A bucket is counted in  *)
(* units: one unit is what the bucket gains in one tick, so a token of the *)
(* per-second bucket is SecUnit units and one of the per-minute bucket is  *)
(* MinUnit units.                                                          *)
(***************************************************************************)
VARIABLES now, perSecond, perMinute, caller, okRecent, okTotal, started

rlVars == <<now, perSecond, perMinute, caller, okRecent, okTotal, started>>

\* rate.NewLimiter(rate.Limit(5), 5)
SecRate == 5
SecBurst == 5
\* rate.NewLimiter(rate.Every(time.Minute/100), 10)
MinRate == 100
MinBurst == 10

TickMs == 1000 \div SecRate
SecUnit == (1000 \div SecRate) \div TickMs
MinUnit == (60000 \div MinRate) \div TickMs
\* ticks in a rolling one-second window, and in a rolling one-minute window
SecWindow == 1000 \div TickMs
MinWindow == 60000 \div TickMs

\* bounds of the limiter model
NumCallers == 2
MaxN == 2
MaxTime == 3
\* Wait/WaitN calls begun in one behaviour
MaxCalls == 6

Callers == 1..NumCallers

Min2(a, b) == IF a < b THEN a ELSE b

RECURSIVE SumSeq(_)
SumSeq(s) == IF s = <<>> THEN 0 ELSE Head(s) + SumSeq(Tail(s))

\* rate.Limiter.advance, applied at every tick: the bucket gains one unit, up to burst
Advance(lim, burst, unit) ==
    [lim EXCEPT !.tokens = Min2(burst * unit, lim.tokens + 1)]

\* rate.Limiter.reserveN with no context deadline: the reservation always succeeds
\* for n <= burst, the bucket may go negative and the caller then sleeps until timeToAct
ReserveDelay(lim, n, unit) ==
    IF lim.tokens - n * unit < 0 THEN n * unit - lim.tokens ELSE 0

ReserveN(lim, n, unit) ==
    [tokens |-> lim.tokens - n * unit, lastEvent |-> now + ReserveDelay(lim, n, unit)]

\* rate.Reservation.CancelAt: the units given back to the bucket
RestoreUnits(lim, r) ==
    IF r.timeToAct < now THEN 0
    ELSE IF r.tokens - (lim.lastEvent - r.timeToAct) <= 0 THEN 0
    ELSE r.tokens - (lim.lastEvent - r.timeToAct)

CancelAt(lim, r, burst, unit) ==
    IF RestoreUnits(lim, r) = 0 THEN lim
    ELSE [tokens |-> Min2(burst * unit, lim.tokens + RestoreUnits(lim, r)),
          lastEvent |-> IF r.timeToAct = lim.lastEvent /\ r.timeToAct - r.tokens >= now
                        THEN r.timeToAct - r.tokens ELSE lim.lastEvent]

IdleCaller ==
    [pc |-> "idle", n |-> 0, ctxDone |-> FALSE,
     r |-> [tokens |-> 0, timeToAct |-> 0], secTaken |-> 0, minTaken |-> 0]

\* A new limiter (NewFeishuRateLimiter: both buckets full), or the limiter two
\* seconds into a run that made MinBurst calls in its first second and none in
\* its second: the per-second bucket is full again, the per-minute bucket has
\* regained WarmTicks units, and the MinBurst calls lie in the current minute.
WarmTicks == 2 * SecWindow

RLInit ==
    /\ now = 0
    /\ perSecond = [tokens |-> SecBurst * SecUnit, lastEvent |-> 0]
    /\ \/ /\ perMinute = [tokens |-> MinBurst * MinUnit, lastEvent |-> 0]
          /\ okTotal = 0
       \/ /\ perMinute = [tokens |-> WarmTicks, lastEvent |-> 0]
          /\ okTotal = MinBurst
    /\ caller = [c \in Callers |-> IdleCaller]
    /\ okRecent = [i \in 1..SecWindow |-> 0]
    /\ started = 0

\* Wait/WaitN returned nil at this tick
RecordOk ==
    /\ okRecent' = [okRecent EXCEPT ![1] = @ + 1]
    /\ okTotal' = okTotal + 1

\* the clock
Tick ==
    /\ now < MaxTime
    /\ now' = now + 1
    /\ perSecond' = Advance(perSecond, SecBurst, SecUnit)
    /\ perMinute' = Advance(perMinute, MinBurst, MinUnit)
    /\ okRecent' = [i \in 1..SecWindow |-> IF i = 1 THEN 0 ELSE okRecent[i - 1]]
    /\ UNCHANGED <<syncVars, extVars>>
    /\ UNCHANGED <<caller, okTotal, started>>

\* the caller's context is cancelled while its Wait call is in progress
CtxCancel(c) ==
    /\ caller[c].pc \in {"secSleep", "min", "minSleep"}
    /\ ~caller[c].ctxDone
    /\ caller' = [caller EXCEPT ![c].ctxDone = TRUE]
    /\ UNCHANGED <<syncVars, extVars>>
    /\ UNCHANGED <<now, perSecond, perMinute, okRecent, okTotal, started>>

\* WaitN, first stage: l.perSecond.WaitN(ctx, n) reserves, and sleeps if it must
SecWaitN(c, n) ==
    /\ caller[c].pc = "idle"
    /\ started < MaxCalls
    /\ started' = started + 1
    /\ IF n > SecBurst
       THEN /\ caller' = [caller EXCEPT ![c].pc = "err", ![c].n = n]
            /\ UNCHANGED perSecond
       ELSE /\ perSecond' = ReserveN(perSecond, n, SecUnit)
            /\ caller' = [caller EXCEPT
                 ![c].pc = IF ReserveDelay(perSecond, n, SecUnit) = 0 THEN "min" ELSE "secSleep",
                 ![c].n = n,
                 ![c].r = [tokens |-> n * SecUnit,
                           timeToAct |-> now + ReserveDelay(perSecond, n, SecUnit)],
                 ![c].secTaken = n * SecUnit]
    /\ UNCHANGED <<syncVars, extVars>>
    /\ UNCHANGED <<now, perMinute, okRecent, okTotal>>

\* the first stage's timer fires
SecTimer(c) ==
    /\ caller[c].pc = "secSleep"
    /\ now >= caller[c].r.timeToAct
    /\ caller' = [caller EXCEPT ![c].pc = "min"]
    /\ UNCHANGED <<syncVars, extVars>>
    /\ UNCHANGED <<now, perSecond, perMinute, okRecent, okTotal, started>>

\* the context is done while the first stage sleeps: r.Cancel(), return ctx.Err()
SecCancelled(c) ==
    /\ caller[c].pc = "secSleep"
    /\ caller[c].ctxDone
    /\ perSecond' = CancelAt(perSecond, caller[c].r, SecBurst, SecUnit)
    /\ caller' = [caller EXCEPT ![c].pc = "err",
                                ![c].secTaken = @ - RestoreUnits(perSecond, caller[c].r)]
    /\ UNCHANGED <<syncVars, extVars>>
    /\ UNCHANGED <<now, perMinute, okRecent, okTotal, started>>

\* a WaitN that returns nil after its first stage, without the per-minute bucket
MinWaitNSkipped(c) ==
    /\ caller[c].pc = "min"
    /\ caller' = [caller EXCEPT ![c].pc = "ok"]
    /\ RecordOk
    /\ UNCHANGED <<syncVars, extVars>>
    /\ UNCHANGED <<now, perSecond, perMinute, started>>

\* WaitN, second stage: l.perMinute.WaitN(ctx, n)
MinWaitN(c) ==
    /\ caller[c].pc = "min"
    /\ IF caller[c].ctxDone \/ caller[c].n > MinBurst
       THEN /\ caller' = [caller EXCEPT ![c].pc = "err"]
            /\ UNCHANGED <<perMinute, okRecent, okTotal>>
       ELSE /\ perMinute' = ReserveN(perMinute, caller[c].n, MinUnit)
            /\ caller' = [caller EXCEPT
                 ![c].pc = IF ReserveDelay(perMinute, caller[c].n, MinUnit) = 0
                           THEN "ok" ELSE "minSleep",
                 ![c].r = [tokens |-> caller[c].n * MinUnit,
                           timeToAct |-> now + ReserveDelay(perMinute, caller[c].n, MinUnit)],
                 ![c].minTaken = caller[c].n * MinUnit]
            /\ IF ReserveDelay(perMinute, caller[c].n, MinUnit) = 0
               THEN RecordOk
               ELSE UNCHANGED <<okRecent, okTotal>>
    /\ UNCHANGED <<syncVars, extVars>>
    /\ UNCHANGED <<now, perSecond, started>>

\* the second stage's timer fires: WaitN returns nil
MinTimer(c) ==
    /\ caller[c].pc = "minSleep"
    /\ now >= caller[c].r.timeToAct
    /\ caller' = [caller EXCEPT ![c].pc = "ok"]
    /\ RecordOk
    /\ UNCHANGED <<syncVars, extVars>>
    /\ UNCHANGED <<now, perSecond, perMinute, started>>

\* the context is done while the second stage sleeps
MinCancelled(c) ==
    /\ caller[c].pc = "minSleep"
    /\ caller[c].ctxDone
    /\ perMinute' = CancelAt(perMinute, caller[c].r, MinBurst, MinUnit)
    /\ caller' = [caller EXCEPT ![c].pc = "err",
                                ![c].minTaken = @ - RestoreUnits(perMinute, caller[c].r)]
    /\ UNCHANGED <<syncVars, extVars>>
    /\ UNCHANGED <<now, perSecond, okRecent, okTotal, started>>

\* the client method that called Wait returns: after issuing its remote call when
\* Wait returned nil (pc "ok"), with the limiter's error and no call otherwise
ClientReturn(c) ==
    /\ caller[c].pc \in {"ok", "err"}
    /\ caller' = [caller EXCEPT ![c] = IdleCaller]
    /\ UNCHANGED <<syncVars, extVars>>
    /\ UNCHANGED <<now, perSecond, perMinute, okRecent, okTotal, started>>

\* ---- Allow / AllowN: the non-blocking check ----

\* rate.Limiter.AllowN(now, n): reserveN with no wait allowed succeeds when
\* n <= burst and the bucket holds n tokens
LimAllowN(lim, n, burst, unit) == n <= burst /\ lim.tokens >= n * unit

\* AllowN, left operand of &&: l.perSecond.AllowN(time.Now(), n); false ends the call
AllowSec(c, n) ==
    /\ caller[c].pc = "idle"
    /\ started < MaxCalls
    /\ started' = started + 1
    /\ IF LimAllowN(perSecond, n, SecBurst, SecUnit)
       THEN /\ perSecond' = ReserveN(perSecond, n, SecUnit)
            /\ caller' = [caller EXCEPT ![c].pc = "allowMin", ![c].n = n,
                                        ![c].secTaken = n * SecUnit]
       ELSE /\ caller' = [caller EXCEPT ![c].pc = "false", ![c].n = n]
            /\ UNCHANGED perSecond
    /\ UNCHANGED <<syncVars, extVars>>
    /\ UNCHANGED <<now, perMinute, okRecent, okTotal>>

\* AllowN, right operand of &&: l.perMinute.AllowN(time.Now(), n)
AllowMin(c) ==
    /\ caller[c].pc = "allowMin"
    /\ IF LimAllowN(perMinute, caller[c].n, MinBurst, MinUnit)
       THEN /\ perMinute' = ReserveN(perMinute, caller[c].n, MinUnit)
            /\ caller' = [caller EXCEPT ![c].pc = "true",
                                        ![c].minTaken = caller[c].n * MinUnit]
       ELSE /\ caller' = [caller EXCEPT ![c].pc = "false"]
            /\ UNCHANGED perMinute
    /\ UNCHANGED <<syncVars, extVars>>
    /\ UNCHANGED <<now, perSecond, okRecent, okTotal, started>>

\* the caller of Allow/AllowN has its answer
AllowReturn(c) ==
    /\ caller[c].pc \in {"true", "false"}
    /\ caller' = [caller EXCEPT ![c] = IdleCaller]
    /\ UNCHANGED <<syncVars, extVars>>
    /\ UNCHANGED <<now, perSecond, perMinute, okRecent, okTotal, started>>

NextAllow ==
    \/ Tick
    \/ \E c \in Callers : \E n \in 1..MaxN : AllowSec(c, n)
    \/ \E c \in Callers : AllowMin(c)
    \/ \E c \in Callers : AllowReturn(c)

NextRL ==
    \/ Tick
    \/ \E c \in Callers : \E n \in 1..MaxN : SecWaitN(c, n)
    \/ \E c \in Callers : CtxCancel(c)
    \/ \E c \in Callers : SecTimer(c)
    \/ \E c \in Callers : SecCancelled(c)
    \/ \E c \in Callers : MinWaitN(c)
    \/ \E c \in Callers : MinTimer(c)
    \/ \E c \in Callers : MinCancelled(c)
    \/ \E c \in Callers : ClientReturn(c)


(***************************************************************************)
(* File names and relative paths.  A string is a sequence of characters;   *)
(* paths are relative and use "/" as os.PathSeparator.                     *)
(***************************************************************************)
Untitled == <<"u", "n", "t", "i", "t", "l", "e", "d">>

\* a SanitizeFileName that keeps the path separator
KeepChar(c) == c

\* the replacements of SanitizeFileName; STAR, QMARK, LBOOK and RBOOK stand for
\* the star, the full-width question mark and the two book-title marks
SanitizeChar(c) ==
    IF c \in {"/", "\\", ":", "|"} THEN "-"
    ELSE IF c = "\"" THEN "'"
    ELSE IF c = "*" THEN "STAR"
    ELSE IF c = "?" THEN "QMARK"
    ELSE IF c = "<" THEN "LBOOK"
    ELSE IF c = ">" THEN "RBOOK"
    ELSE c

RECURSIVE TrimLeft(_)
TrimLeft(s) == IF s # <<>> /\ Head(s) = " " THEN TrimLeft(Tail(s)) ELSE s

RECURSIVE TrimRight(_)
TrimRight(s) ==
    IF s # <<>> /\ s[Len(s)] = " " THEN TrimRight(SubSeq(s, 1, Len(s) - 1)) ELSE s

\* strings.TrimSpace
TrimSpace(s) == TrimRight(TrimLeft(s))

\* utils.SanitizeFileName
SanitizeFileName(title) ==
    LET t == TrimSpace([i \in 1..Len(title) |-> SanitizeChar(title[i])])
    IN  IF t = <<>> \/ t = <<".">> \/ t = <<".", ".">> THEN Untitled ELSE t

\* strings.Split(s, "/")
RECURSIVE SplitPath(_)
SplitPath(s) ==
    IF \A i \in 1..Len(s) : s[i] # "/" THEN <<s>>
    ELSE LET i == CHOOSE k \in 1..Len(s) : s[k] = "/" /\ \A j \in 1..(k - 1) : s[j] # "/"
         IN  <<SubSeq(s, 1, i - 1)>> \o SplitPath(SubSeq(s, i + 1, Len(s)))

\* strings.Join(segs, "/")
RECURSIVE JoinPath(_)
JoinPath(segs) ==
    IF segs = <<>> THEN <<>>
    ELSE IF Len(segs) = 1 THEN segs[1]
    ELSE segs[1] \o <<"/">> \o JoinPath(Tail(segs))

\* filepath.Clean on the elements of a relative path: empty and "." elements are
\* dropped, ".." removes the element before it
RECURSIVE CleanSegs(_, _)
CleanSegs(segs, out) ==
    IF segs = <<>> THEN out
    ELSE IF Head(segs) = <<>> \/ Head(segs) = <<".">> THEN CleanSegs(Tail(segs), out)
    ELSE IF Head(segs) = <<".", ".">> /\ out # <<>> /\ out[Len(out)] # <<".", ".">>
         THEN CleanSegs(Tail(segs), SubSeq(out, 1, Len(out) - 1))
    ELSE CleanSegs(Tail(segs), Append(out, Head(segs)))

\* filepath.Clean
Clean(path) ==
    IF CleanSegs(SplitPath(path), <<>>) = <<>> THEN <<".">>
    ELSE JoinPath(CleanSegs(SplitPath(path), <<>>))

\* filepath.Join(a, b): empty elements are ignored, the result is cleaned
Join(a, b) ==
    IF a = <<>> /\ b = <<>> THEN <<>>
    ELSE IF a = <<>> THEN Clean(b)
    ELSE IF b = <<>> THEN Clean(a)
    ELSE Clean(a \o <<"/">> \o b)

\* the directories of a cleaned path: its elements other than "" and "."
PathDirs(cleanPath) ==
    SelectSeq(SplitPath(cleanPath), LAMBDA part : part # <<>> /\ part # <<".">>)

\* deriveTagsFromPath(relPath)
deriveTagsFromPath(relPath) ==
    IF Clean(relPath) \in {<<".">>, <<"/">>, <<>>} THEN <<>>
    ELSE PathDirs(Clean(relPath))

\* an index that counts every level from the outermost
CategoryIndexOutermost(n, level) ==
    IF level > 0
    THEN (IF level - 1 >= n THEN n - 1 ELSE level - 1) + 1
    ELSE (IF 0 - level - 1 >= n THEN n - 1 ELSE 0 - level - 1) + 1

\* the index (from 1) deriveCategoryFromPath computes for a non-zero level
CategoryIndex(n, level) ==
    IF level > 0
    THEN (IF level - 1 >= n THEN n - 1 ELSE level - 1) + 1
    ELSE (IF n + level < 0 THEN 0 ELSE n + level) + 1

\* deriveCategoryFromPath(relPath, level); "" when there is no category
deriveCategoryFromPath(relPath, level) ==
    IF Clean(relPath) \in {<<".">>, <<"/">>, <<>>} THEN <<>>
    ELSE IF PathDirs(Clean(relPath)) = <<>> THEN <<>>
    ELSE IF level = 0 THEN <<>>
    ELSE PathDirs(Clean(relPath))[CategoryIndex(Len(PathDirs(Clean(relPath))), level)]

(***************************************************************************)
(* Part 2.  The wiki-tree run: downloadWikiChildren launches one           *)
(* downloadDocument task per docx node of allNodes.  The documents of this *)
(* model are the children of the root, so they share one output directory  *)
(* and one image directory.  The context is context.Background(): a        *)
(* limiter Wait inside a client method never fails here.                   *)
(***************************************************************************)
\* bounds of the run model; maxConcurrency stands for the source's 20
NumDocs == 3
maxConcurrency == 2
NumTokens == 2
\* --category-level ranges over -MaxLevel..MaxLevel
MaxLevel == 3
\* stands for picgo's BatchConcurrency (10): upload goroutines of one BatchUpload call
BatchConcurrency == 1
MaxPages == 2
MaxClock == 2

Docs == 1..NumDocs
Tokens == 1..NumTokens

NoFile == <<>>
Unreadable == <<0>>

\* calculateMD5: the digest of a content, folded over its characters
RECURSIVE calculateMD5(_)
calculateMD5(content) ==
    IF content = <<>> THEN 0
    ELSE (calculateMD5(SubSeq(content, 1, Len(content) - 1)) * 11
          + content[Len(content)] + 1) % 2147483647

\* a link as it stands in the rendered body: the unresolved token, the local
\* relative path ./img/<token>.<ext>, or the uploaded URL
LinkCode(t, link) ==
    IF link = "local" THEN 3 * t + 1 ELSE IF link = "url" THEN 3 * t + 2 ELSE 3 * t

\* tokenToLink after the image stage, from each token's result: the cached or
\* uploaded URL, the local path (also when the upload failed), or no entry
TokenLink(res) ==
    IF res \in {"cache", "uploaded"} THEN "url"
    ELSE IF res \in {"local", "upfail"} THEN "local"
    ELSE "none"

\* frontmatter (id, date, updated) followed by the body with every token replaced
Render(d, fm, res) ==
    <<d, fm[1], fm[2]>> \o
    [i \in 1..Len(remote[d].body) |->
        LinkCode(remote[d].body[i], TokenLink(res[remote[d].body[i]]))]

\* a job list with one job per occurrence of a token
uniqueTokensPerOccurrence(s) == s

\* uniqueTokens: the image tokens of the body in order of first occurrence, each
\* once (the seen map of downloadDocument); one job is sent per entry
RECURSIVE uniqueTokens(_)
uniqueTokens(s) ==
    IF s = <<>> THEN <<>>
    ELSE LET front == uniqueTokens(SubSeq(s, 1, Len(s) - 1))
         IN  IF \E i \in 1..Len(front) : front[i] = s[Len(s)]
             THEN front
             ELSE Append(front, s[Len(s)])

\* the jobs channel after a worker has received the first job for token t
TakeJob(jobs, t) ==
    LET i == CHOOSE k \in 1..Len(jobs) :
                 jobs[k] = t /\ \A j \in 1..(k - 1) : jobs[j] # t
    IN  SubSeq(jobs, 1, i - 1) \o SubSeq(jobs, i + 1, Len(jobs))

HasJob(jobs, t) == \E k \in 1..Len(jobs) : jobs[k] = t

\* a shouldSkipFile that skips whenever a readable file exists
shouldSkipFileAnyContent(existing, content, skipDuplicate) ==
    skipDuplicate /\ existing # NoFile /\ existing # Unreadable

\* shouldSkipFile(outputPath, content, skipDuplicate)
shouldSkipFile(existing, content, skipDuplicate) ==
    IF ~skipDuplicate THEN FALSE
    ELSE IF existing = NoFile THEN FALSE
    ELSE IF existing = Unreadable THEN FALSE
    ELSE calculateMD5(existing) = calculateMD5(content)

IdleTask ==
    [pc |-> "idle", panicking |-> FALSE, fetchFailed |-> FALSE, pages |-> 0,
     res |-> [t \in Tokens |-> "none"], fm |-> <<0, 0>>, cat |-> <<>>, err |-> "nil",
     jobs |-> <<>>, dl |-> [t \in Tokens |-> 0], up |-> [t \in Tokens |-> 0]]

\* the process state at the start of downloadWikiChildren's fan-out
ProcessStart ==
    /\ mainPc = "launch"
    /\ nextIdx = 1
    /\ sem = 0
    /\ wg = 0
    /\ errChan = <<>>
    /\ closed = FALSE
    /\ retErr = "nil"
    /\ crashed = FALSE
    /\ task = [d \in Docs |-> IdleTask]
    /\ stats = [totalDocs |-> NumDocs, docsNew |-> 0, totalImages |-> 0, imagesNew |-> 0]
    /\ remoteLog = {}
    /\ runWrites = 0
    /\ cacheMem = {}
    /\ loaded = FALSE
    /\ persistPending = 0
    /\ runUploads = 0

Alive == ~crashed /\ mainPc # "exited"

\* one call of the remote store, and whether a limiter Wait preceded it
Limited(api) == remoteLog' = remoteLog \cup {[api |-> api, waited |-> TRUE]}
Unlimited(api) == remoteLog' = remoteLog \cup {[api |-> api, waited |-> FALSE]}

\* ---- downloadWikiChildren ----

\* a launch that does not take a semaphore slot
LaunchNoSlot ==
    /\ Alive /\ mainPc = "launch" /\ nextIdx <= Len(allNodes)
    /\ IF remote[allNodes[nextIdx]].type = "docx"
       THEN /\ wg' = wg + 1
            /\ task' = [task EXCEPT ![allNodes[nextIdx]].pc = "mkdir"]
       ELSE UNCHANGED <<wg, task>>
    /\ nextIdx' = nextIdx + 1
    /\ UNCHANGED <<rlVars, imgVars, extVars>>
    /\ UNCHANGED <<cfg, remote, run, clock, mainPc, sem, errChan, closed, retErr, crashed,
                   files, stats, remoteLog, runWrites, faulted>>

\* a launch loop that starts a task for a node of any kind
LaunchEveryNode ==
    /\ Alive /\ mainPc = "launch" /\ nextIdx <= Len(allNodes)
    /\ sem < maxConcurrency
    /\ wg' = wg + 1
    /\ sem' = sem + 1
    /\ task' = [task EXCEPT ![allNodes[nextIdx]].pc = "mkdir"]
    /\ nextIdx' = nextIdx + 1
    /\ UNCHANGED <<rlVars, imgVars, extVars>>
    /\ UNCHANGED <<cfg, remote, run, clock, mainPc, errChan, closed, retErr, crashed,
                   files, stats, remoteLog, runWrites, faulted>>

\* for _, node := range allNodes: wg.Add(1); semaphore <- struct{}{}; go func(...)
Launch ==
    /\ Alive /\ mainPc = "launch" /\ nextIdx <= Len(allNodes)
    /\ IF remote[allNodes[nextIdx]].type = "docx"
       THEN /\ sem < maxConcurrency
            /\ wg' = wg + 1
            /\ sem' = sem + 1
            /\ task' = [task EXCEPT ![allNodes[nextIdx]].pc = "mkdir"]
       ELSE UNCHANGED <<wg, sem, task>>
    /\ nextIdx' = nextIdx + 1
    /\ UNCHANGED <<rlVars, imgVars, extVars>>
    /\ UNCHANGED <<cfg, remote, run, clock, mainPc, errChan, closed, retErr, crashed,
                   files, stats, remoteLog, runWrites, faulted>>

\* the loop ends: go func() { wg.Wait(); close(errChan) }()
LaunchDone ==
    /\ Alive /\ mainPc = "launch" /\ nextIdx > Len(allNodes)
    /\ mainPc' = "drain"
    /\ UNCHANGED <<rlVars, imgVars, extVars>>
    /\ UNCHANGED <<cfg, remote, run, clock, nextIdx, sem, wg, errChan, closed, retErr,
                   crashed, task, files, stats, remoteLog, runWrites, faulted>>

\* wg.Wait() returns and errChan is closed
Closer ==
    /\ Alive /\ mainPc \in {"drain", "returned"} /\ wg = 0 /\ ~closed
    /\ closed' = TRUE
    /\ UNCHANGED <<rlVars, imgVars, extVars>>
    /\ UNCHANGED <<cfg, remote, run, clock, mainPc, nextIdx, sem, wg, errChan, retErr,
                   crashed, task, files, stats, remoteLog, runWrites, faulted>>

\* for err := range errChan { if err != nil { return err } }
DrainErr ==
    /\ Alive /\ mainPc = "drain" /\ errChan # <<>>
    /\ retErr' = "err"
    /\ errChan' = Tail(errChan)
    /\ mainPc' = "returned"
    /\ UNCHANGED <<rlVars, imgVars, extVars>>
    /\ UNCHANGED <<cfg, remote, run, clock, nextIdx, sem, wg, closed, crashed, task,
                   files, stats, remoteLog, runWrites, faulted>>

\* errChan is closed and empty: the report is printed, return nil
DrainClosed ==
    /\ Alive /\ mainPc = "drain" /\ errChan = <<>> /\ closed
    /\ mainPc' = "returned"
    /\ UNCHANGED <<rlVars, imgVars, extVars>>
    /\ UNCHANGED <<cfg, remote, run, clock, nextIdx, sem, wg, errChan, closed, retErr,
                   crashed, task, files, stats, remoteLog, runWrites, faulted>>

\* ---- one task: the goroutine body and downloadDocument ----

\* utils.CheckErr(err) with StopWhenErr = true: panic(e) in the task's goroutine
Panicking(d, fetch) ==
    [task[d] EXCEPT !.pc = "deferDone", !.panicking = TRUE, !.fetchFailed = fetch]

\* the task returns err: errChan <- fmt.Errorf(...)
ReturnErr(d, cause) ==
    /\ errChan' = Append(errChan, d)
    /\ task' = [task EXCEPT ![d].pc = "deferDone", ![d].err = cause]

\* the root node of the run (its token), and "no node"
Root == 0
NoNode == 0 - 1

\* nodePath := pathMap[n.ParentToken], "." when there is no entry
NodePath(d) ==
    IF tree[d].parent \in DOMAIN pathMap /\ pathMap[tree[d].parent] # <<>>
    THEN pathMap[tree[d].parent]
    ELSE <<".">>

NoOpts == [relDir |-> <<>>, tags |-> <<>>, category |-> <<>>, built |-> FALSE]

\* localOpts: relDir, tags and category of a document task
LocalOpts(d) ==
    [relDir |-> NodePath(d),
     tags |-> deriveTagsFromPath(NodePath(d)),
     category |-> deriveCategoryFromPath(NodePath(d), categoryLevel),
     built |-> TRUE]

\* os.MkdirAll(fullOutputDir), then the task's options
TaskMkdir(d, ok) ==
    /\ Alive /\ task[d].pc = "mkdir"
    /\ IF ok
       THEN /\ task' = [task EXCEPT ![d].pc = "nodeInfo"]
            /\ opts' = [opts EXCEPT ![d] = LocalOpts(d)]
            /\ UNCHANGED <<errChan, faulted>>
       ELSE /\ ReturnErr(d, "mkdir")
            /\ faulted' = TRUE
            /\ UNCHANGED opts
    /\ UNCHANGED <<rlVars, imgVars>>
    /\ UNCHANGED <<tree, categoryLevel, allNodes, pathMap, stack, pendingList, listed>>
    /\ UNCHANGED <<cacheVars, moreVars>>
    /\ UNCHANGED <<cfg, remote, run, clock, mainPc, nextIdx, sem, wg, closed, retErr,
                   crashed, files, stats, remoteLog, runWrites>>

\* a listing that returns the first child only
ChildrenOfFirst(p) ==
    LET all == SelectSeq([i \in 1..NumDocs |-> i], LAMBDA n : tree[n].parent = p)
    IN  IF all = <<>> THEN <<>> ELSE <<all[1]>>

\* GetChildNodes(parent): the nodes whose parent is p, in the order of the listing
ChildrenOf(p) == SelectSeq([i \in 1..NumDocs |-> i], LAMBDA n : tree[n].parent = p)

\* client.GetWikiNodeInfo, then utils.CheckErr(err)
NodeInfo(d, ok) ==
    /\ Alive /\ task[d].pc = "nodeInfo"
    /\ Limited("GetWikiNode")
    /\ IF ok
       THEN /\ task' = [task EXCEPT ![d].pc = "children"]
            /\ UNCHANGED faulted
       ELSE /\ task' = [task EXCEPT ![d] = Panicking(d, FALSE)]
            /\ faulted' = TRUE
    /\ UNCHANGED <<rlVars, imgVars, extVars>>
    /\ UNCHANGED <<cfg, remote, run, clock, mainPc, nextIdx, sem, wg, errChan, closed,
                   retErr, crashed, files, stats, runWrites>>

\* client.GetChildNodes (opts.spaceID is set): a document with children is skipped;
\* a listing error is ignored.  Then the docType == "docs" rejection.
Children(d, ok) ==
    /\ Alive /\ task[d].pc = "children"
    /\ Unlimited("GetWikiNodeList")
    /\ IF ok /\ Len(ChildrenOf(d)) > 0
       THEN /\ task' = [task EXCEPT ![d].pc = "deferDone"]
            /\ UNCHANGED errChan
       ELSE IF remote[d].objType = "docs"
            THEN ReturnErr(d, "docs")
            ELSE /\ task' = [task EXCEPT ![d].pc = "meta"]
                 /\ UNCHANGED errChan
    /\ faulted' = (faulted \/ ~ok)
    /\ UNCHANGED <<rlVars, imgVars, extVars>>
    /\ UNCHANGED <<cfg, remote, run, clock, mainPc, nextIdx, sem, wg, closed, retErr,
                   crashed, files, stats, runWrites>>

\* client.GetDocxDocumentMeta, then utils.CheckErr(err)
Meta(d, ok) ==
    /\ Alive /\ task[d].pc = "meta"
    /\ Limited("GetDocxDocument")
    /\ IF ok
       THEN /\ task' = [task EXCEPT ![d].pc = "content"]
            /\ UNCHANGED faulted
       ELSE /\ task' = [task EXCEPT ![d] = Panicking(d, TRUE)]
            /\ faulted' = TRUE
    /\ UNCHANGED <<rlVars, imgVars, extVars>>
    /\ UNCHANGED <<cfg, remote, run, clock, mainPc, nextIdx, sem, wg, errChan, closed,
                   retErr, crashed, files, stats, runWrites>>

\* client.GetDocxContent: the document, then one request per page of blocks;
\* then utils.CheckErr(err)
Content(d, ok) ==
    /\ Alive /\ task[d].pc = "content"
    /\ Limited("GetDocxDocument")
    /\ IF ok
       THEN /\ task' = [task EXCEPT ![d].pc = "blocks"]
            /\ UNCHANGED faulted
       ELSE /\ task' = [task EXCEPT ![d] = Panicking(d, TRUE)]
            /\ faulted' = TRUE
    /\ UNCHANGED <<rlVars, imgVars, extVars>>
    /\ UNCHANGED <<cfg, remote, run, clock, mainPc, nextIdx, sem, wg, errChan, closed,
                   retErr, crashed, files, stats, runWrites>>

ContentPage(d, ok) ==
    /\ Alive /\ task[d].pc = "blocks"
    /\ Limited("GetDocxBlockListOfDocument")
    /\ IF ok
       THEN /\ task' = [task EXCEPT
                 ![d].pages = @ + 1,
                 ![d].jobs = IF task[d].pages + 1 < remote[d].pages THEN <<>>
                             ELSE uniqueTokens(remote[d].body),
                 ![d].pc = IF task[d].pages + 1 < remote[d].pages THEN "blocks"
                           ELSE IF remote[d].body = <<>> THEN "times" ELSE "images"]
            /\ UNCHANGED faulted
       ELSE /\ task' = [task EXCEPT ![d] = Panicking(d, TRUE)]
            /\ faulted' = TRUE
    /\ UNCHANGED <<rlVars, imgVars, extVars>>
    /\ UNCHANGED <<cfg, remote, run, clock, mainPc, nextIdx, sem, wg, errChan, closed,
                   retErr, crashed, files, stats, runWrites>>

\* the default category label of the frontmatter
DefaultCategory == <<"uncategorized">>

\* fmCategory: opts.category, or the first tag, or the default label
FmCategory(o) ==
    IF o.category # <<>> THEN o.category
    ELSE IF Len(o.tags) > 0 THEN o.tags[1]
    ELSE DefaultCategory

\* client.GetDocxTimes; a missing time is replaced by time.Now(); then the
\* frontmatter with its category
Times(d, tick) ==
    /\ Alive /\ task[d].pc = "times"
    /\ Unlimited("GetDriveFileMeta")
    /\ IF remote[d].timesAvail
       THEN /\ task' = [task EXCEPT ![d].pc = "write", ![d].fm = <<0, 0>>,
                                            ![d].cat = FmCategory(opts[d])]
            /\ UNCHANGED clock
       ELSE /\ clock + tick <= MaxClock
            /\ clock' = clock + tick
            /\ task' = [task EXCEPT ![d].pc = "write", ![d].fm = <<clock', clock'>>,
                                            ![d].cat = FmCategory(opts[d])]
    /\ UNCHANGED <<rlVars, imgVars, extVars>>
    /\ UNCHANGED <<cfg, remote, run, mainPc, nextIdx, sem, wg, errChan, closed, retErr,
                   crashed, files, stats, runWrites, faulted>>

\* a counter update that overwrites a concurrent one
AddDocNewLost(s) == [s EXCEPT !.docsNew = IF @ > 0 THEN @ ELSE 1]

\* DownloadStats.AddDocNew and AddImages, each under the mutex
AddDocNew(s) == [s EXCEPT !.docsNew = @ + 1]
AddImages(s, encountered, newlyDownloaded) ==
    [s EXCEPT !.totalImages = @ + encountered, !.imagesNew = @ + newlyDownloaded]

\* the skip check and os.WriteFile(outputPath, result); dlStats.AddDocNew()
Write(d, ok) ==
    /\ Alive /\ task[d].pc = "write"
    /\ IF ~cfg.forceDownload
          /\ shouldSkipFile(files[d], Render(d, task[d].fm, task[d].res), cfg.skipDuplicate)
       THEN /\ task' = [task EXCEPT ![d].pc = "deferDone"]
            /\ UNCHANGED <<files, stats, runWrites, errChan, faulted, logs>>
       ELSE IF ok
            THEN /\ files' = [files EXCEPT ![d] = Render(d, task[d].fm, task[d].res)]
                 /\ runWrites' = runWrites + 1
                 /\ stats' = AddDocNew(stats)
                 /\ logs' = Append(logs, [path |-> d, docNew |-> TRUE,
                                          imgCache |-> 0, imgNew |-> 0])
                 /\ task' = [task EXCEPT ![d].pc = "deferDone"]
                 /\ UNCHANGED <<errChan, faulted>>
            ELSE /\ ReturnErr(d, "write")
                 /\ faulted' = TRUE
                 /\ UNCHANGED <<files, stats, runWrites, logs>>
    /\ UNCHANGED <<rlVars, imgVars, treeVars, cacheVars, listVars, collideVars, lateVars>>
    /\ UNCHANGED <<cfg, remote, run, clock, mainPc, nextIdx, sem, wg, closed, retErr,
                   crashed, remoteLog>>

\* defer func() { wg.Done(); <-semaphore }()
DeferDone(d) ==
    /\ Alive /\ task[d].pc = "deferDone"
    /\ wg' = wg - 1
    /\ task' = [task EXCEPT ![d].pc = "deferSem"]
    /\ UNCHANGED <<rlVars, imgVars, extVars>>
    /\ UNCHANGED <<cfg, remote, run, clock, mainPc, nextIdx, sem, errChan, closed, retErr,
                   crashed, files, stats, remoteLog, runWrites, faulted>>

DeferSem(d) ==
    /\ Alive /\ task[d].pc = "deferSem"
    /\ sem' = sem - 1
    /\ task' = [task EXCEPT ![d].pc = IF task[d].panicking THEN "crash" ELSE "exited"]
    /\ UNCHANGED <<rlVars, imgVars, extVars>>
    /\ UNCHANGED <<cfg, remote, run, clock, mainPc, nextIdx, wg, errChan, closed, retErr,
                   crashed, files, stats, remoteLog, runWrites, faulted>>

\* the panic leaves the goroutine unrecovered: the process dies
ProcessCrash(d) ==
    /\ Alive /\ task[d].pc = "crash"
    /\ crashed' = TRUE
    /\ UNCHANGED <<rlVars, imgVars, extVars>>
    /\ UNCHANGED <<cfg, remote, run, clock, mainPc, nextIdx, sem, wg, errChan, closed,
                   retErr, task, files, stats, remoteLog, runWrites, faulted>>

\* downloadWikiChildren has returned: the command returns and the process exits
ProcessExit ==
    /\ Alive /\ mainPc = "returned"
    /\ mainPc' = "exited"
    /\ UNCHANGED <<rlVars, imgVars, extVars>>
    /\ UNCHANGED <<cfg, remote, run, clock, nextIdx, sem, wg, errChan, closed, retErr,
                   crashed, task, files, stats, remoteLog, runWrites, faulted>>

\* ---- the image stage of downloadDocument and picgo ----

\* uniqueTokens: the tokens of the body, each once
UniqueTokens(d) == {remote[d].body[i] : i \in 1..Len(remote[d].body)}

\* a cache that is never read from its file
LoadedCacheMemoryOnly == cacheMem

\* picgo.loadCache: the first use reads the cache file into the memory cache
LoadedCache == IF loaded THEN cacheMem ELSE cacheMem \cup cacheFile

\* needUploadImages: the tokens downloaded (or found locally) while picgo is enabled
NeedUpload(d) ==
    IF cfg.picgoEnabled
    THEN {t \in UniqueTokens(d) :
            task[d].res[t] \in {"local", "uploading", "uploaded", "upfail"}}
    ELSE {}

\* a worker whose download failure is returned as the document's error
ResolveImageFatal(d, t, ok) ==
    /\ Alive /\ task[d].pc = "images"
    /\ HasJob(task[d].jobs, t)
    /\ Limited("DownloadDriveMedia")
    /\ IF ok
       THEN /\ imgFiles' = imgFiles \cup {t}
            /\ imgDir' = TRUE
            /\ task' = [task EXCEPT ![d].res[t] = "local", ![d].dl[t] = @ + 1,
                                    ![d].jobs = TakeJob(@, t)]
            /\ UNCHANGED <<errChan, faulted>>
       ELSE /\ errChan' = Append(errChan, d)
            /\ task' = [task EXCEPT ![d].res[t] = "fail", ![d].pc = "deferDone",
                                    ![d].err = "image", ![d].dl[t] = @ + 1,
                                    ![d].jobs = TakeJob(@, t)]
            /\ faulted' = TRUE
            /\ UNCHANGED <<imgFiles, imgDir>>
    /\ UNCHANGED <<rlVars, extVars>>
    /\ UNCHANGED <<cfg, remote, run, clock, mainPc, nextIdx, sem, wg, closed,
                   retErr, crashed, files, stats, runWrites, cacheFile, cacheMem, loaded,
                   persistPending, runUploads>>

\* a worker whose DownloadImage does not look for a local file
ResolveImageAlwaysFetch(d, t, ok) ==
    /\ Alive /\ task[d].pc = "images"
    /\ HasJob(task[d].jobs, t)
    /\ IF cfg.picgoEnabled /\ t \in LoadedCache
       THEN /\ task' = [task EXCEPT ![d].res[t] = "cache", ![d].jobs = TakeJob(@, t)]
            /\ cacheMem' = LoadedCache
            /\ loaded' = TRUE
            /\ UNCHANGED <<imgFiles, imgDir, remoteLog, faulted>>
       ELSE /\ IF cfg.picgoEnabled
               THEN cacheMem' = LoadedCache /\ loaded' = TRUE
               ELSE UNCHANGED <<cacheMem, loaded>>
            /\ Limited("DownloadDriveMedia")
            /\ IF ok
               THEN /\ imgFiles' = imgFiles \cup {t}
                    /\ imgDir' = TRUE
                    /\ task' = [task EXCEPT ![d].res[t] = "local", ![d].dl[t] = @ + 1,
                                            ![d].jobs = TakeJob(@, t)]
                    /\ UNCHANGED faulted
               ELSE /\ task' = [task EXCEPT
                                ![d].res[t] = IF @ = "none" THEN "fail" ELSE @,
                                ![d].dl[t] = @ + 1,
                                ![d].jobs = TakeJob(@, t)]
                    /\ faulted' = TRUE
                    /\ UNCHANGED <<imgFiles, imgDir>>
    /\ UNCHANGED <<rlVars, extVars>>
    /\ UNCHANGED <<cfg, remote, run, clock, mainPc, nextIdx, sem, wg, errChan, closed,
                   retErr, crashed, files, stats, runWrites, cacheFile, persistPending,
                   runUploads>>

\* a worker resolves one token: picgo.GetCached, else client.DownloadImage, which
\* reuses a local file named <token>.* and otherwise waits on the limiter and downloads
ResolveImage(d, t, ok) ==
    /\ Alive /\ task[d].pc = "images"
    /\ HasJob(task[d].jobs, t)
    /\ IF cfg.picgoEnabled /\ t \in LoadedCache
       THEN /\ task' = [task EXCEPT ![d].res[t] = "cache", ![d].jobs = TakeJob(@, t)]
            /\ cacheMem' = LoadedCache
            /\ loaded' = TRUE
            /\ UNCHANGED <<imgFiles, imgDir, remoteLog, faulted>>
       ELSE /\ IF cfg.picgoEnabled
               THEN cacheMem' = LoadedCache /\ loaded' = TRUE
               ELSE UNCHANGED <<cacheMem, loaded>>
            /\ IF t \in imgFiles
               THEN /\ task' = [task EXCEPT ![d].res[t] = "local",
                                            ![d].jobs = TakeJob(@, t)]
                    /\ UNCHANGED <<imgFiles, imgDir, remoteLog, faulted>>
               ELSE /\ Limited("DownloadDriveMedia")
                    /\ IF ok
                       THEN /\ imgFiles' = imgFiles \cup {t}
                            /\ imgDir' = TRUE
                            /\ task' = [task EXCEPT ![d].res[t] = "local",
                                                    ![d].dl[t] = @ + 1,
                                                    ![d].jobs = TakeJob(@, t)]
                            /\ UNCHANGED faulted
                       ELSE /\ task' = [task EXCEPT
                                        ![d].res[t] = IF @ = "none" THEN "fail" ELSE @,
                                        ![d].dl[t] = @ + 1,
                                        ![d].jobs = TakeJob(@, t)]
                            /\ faulted' = TRUE
                            /\ UNCHANGED <<imgFiles, imgDir>>
    /\ UNCHANGED <<rlVars, extVars>>
    /\ UNCHANGED <<cfg, remote, run, clock, mainPc, nextIdx, sem, wg, errChan, closed,
                   retErr, crashed, files, stats, runWrites, cacheFile, persistPending,
                   runUploads>>

\* logCollector.Add(DocLog{Path, ImgCache: cacheHitCount, ImgNew: len(needUploadImages)})
ImageLog(d) ==
    [path |-> d, docNew |-> FALSE,
     imgCache |-> Cardinality({t \in UniqueTokens(d) : task[d].res[t] = "cache"}),
     imgNew |-> Cardinality(NeedUpload(d))]

\* the results are collected: without a success nothing more is done; with picgo
\* and images to upload the batch upload follows; otherwise the links are
\* replaced and dlStats.AddImages is called
Collect(d) ==
    /\ Alive /\ task[d].pc = "images"
    /\ task[d].jobs = <<>>
    /\ IF \A t \in UniqueTokens(d) : task[d].res[t] = "fail"
       THEN /\ task' = [task EXCEPT ![d].pc = "times"]
            /\ UNCHANGED stats
       ELSE IF NeedUpload(d) # {}
            THEN /\ task' = [task EXCEPT ![d].pc = "upload"]
                 /\ UNCHANGED stats
            ELSE /\ task' = [task EXCEPT ![d].pc = "times"]
                 /\ stats' = AddImages(stats, Cardinality(UniqueTokens(d)), 0)
    /\ logs' = IF \A t \in UniqueTokens(d) : task[d].res[t] = "fail" THEN logs
               ELSE IF NeedUpload(d) # {} THEN logs
               ELSE Append(logs, ImageLog(d))
    /\ UNCHANGED <<rlVars, treeVars, cacheVars, listVars, collideVars, lateVars>>
    /\ UNCHANGED <<cfg, remote, run, clock, mainPc, nextIdx, sem, wg, errChan, closed,
                   retErr, crashed, files, remoteLog, runWrites, faulted, imgVars>>

\* the upload goroutines of d's BatchUpload call that are running UploadWithContext
Uploading(d) == {t \in UniqueTokens(d) : task[d].res[t] = "uploading"}

\* picgo.BatchUpload starts the goroutine of one path once its semaphore (one per
\* call, BatchConcurrency slots) has room: GetCached, and on a miss the upload begins
UploadBegin(d, t) ==
    /\ Alive /\ task[d].pc = "upload"
    /\ t \in UniqueTokens(d) /\ task[d].res[t] = "local"
    /\ Cardinality(Uploading(d)) < BatchConcurrency
    /\ loaded' = TRUE
    /\ cacheMem' = LoadedCache
    /\ IF t \in LoadedCache
       THEN /\ task' = [task EXCEPT ![d].res[t] = "uploaded"]
            /\ UNCHANGED runUploads
       ELSE /\ task' = [task EXCEPT ![d].res[t] = "uploading", ![d].up[t] = @ + 1]
            /\ runUploads' = runUploads + 1
    /\ UNCHANGED <<rlVars, extVars>>
    /\ UNCHANGED <<cfg, remote, run, clock, mainPc, nextIdx, sem, wg, errChan, closed,
                   retErr, crashed, files, stats, remoteLog, runWrites, faulted, imgFiles,
                   imgDir, cacheFile, persistPending>>

\* UploadWithContext returns: on success SaveCache stores the entry in memory and
\* starts a persist goroutine; a failure is only printed
UploadOne(d, t, ok) ==
    /\ Alive /\ task[d].pc = "upload"
    /\ t \in Uploading(d)
    /\ IF ok /\ t \in imgFiles
       THEN /\ task' = [task EXCEPT ![d].res[t] = "uploaded"]
            /\ cacheMem' = LoadedCache \cup {t}
            /\ persistPending' = persistPending + 1
            /\ UNCHANGED faulted
       ELSE /\ task' = [task EXCEPT ![d].res[t] = "upfail"]
            /\ faulted' = TRUE
            /\ UNCHANGED <<cacheMem, persistPending>>
    /\ UNCHANGED <<rlVars, extVars>>
    /\ UNCHANGED <<cfg, remote, run, clock, mainPc, nextIdx, sem, wg, errChan, closed,
                   retErr, crashed, files, stats, remoteLog, runWrites, imgFiles, imgDir,
                   cacheFile, loaded, runUploads>>

Uploaded(d) == {t \in UniqueTokens(d) : task[d].res[t] = "uploaded"}

\* an upload stage that leaves the local files and the directory in place
AfterUploadKeepFiles(d) ==
    /\ Alive /\ task[d].pc = "upload"
    /\ \A t \in UniqueTokens(d) : task[d].res[t] \notin {"local", "uploading"}
    /\ stats' = AddImages(stats, Cardinality(UniqueTokens(d)), Cardinality(NeedUpload(d)))
    /\ logs' = Append(logs, ImageLog(d))
    /\ task' = [task EXCEPT ![d].pc = "times"]
    /\ UNCHANGED <<rlVars, treeVars, cacheVars, listVars, collideVars, lateVars>>
    /\ UNCHANGED <<cfg, remote, run, clock, mainPc, nextIdx, sem, wg, errChan, closed,
                   retErr, crashed, files, remoteLog, runWrites, faulted, imgVars>>

\* BatchUpload has returned: the uploaded local files are removed, the image
\* directory is removed if empty, the links are replaced, dlStats.AddImages
AfterUpload(d) ==
    /\ Alive /\ task[d].pc = "upload"
    /\ \A t \in UniqueTokens(d) : task[d].res[t] \notin {"local", "uploading"}
    /\ imgFiles' = imgFiles \ Uploaded(d)
    /\ imgDir' = (imgDir /\ imgFiles' # {})
    /\ stats' = AddImages(stats, Cardinality(UniqueTokens(d)), Cardinality(NeedUpload(d)))
    /\ logs' = Append(logs, ImageLog(d))
    /\ task' = [task EXCEPT ![d].pc = "times"]
    /\ UNCHANGED <<rlVars, treeVars, cacheVars, listVars, collideVars, lateVars>>
    /\ UNCHANGED <<cfg, remote, run, clock, mainPc, nextIdx, sem, wg, errChan, closed,
                   retErr, crashed, files, remoteLog, runWrites, faulted, cacheFile,
                   cacheMem, loaded, persistPending, runUploads>>

\* a persist goroutine started by SaveCache: persistCache writes the memory cache
PersistCache ==
    /\ Alive /\ persistPending > 0
    /\ persistPending' = persistPending - 1
    /\ cacheFile' = cacheMem
    /\ UNCHANGED <<rlVars, extVars>>
    /\ UNCHANGED <<cfg, remote, run, clock, mainPc, nextIdx, sem, wg, errChan, closed,
                   retErr, crashed, task, files, stats, remoteLog, runWrites, faulted,
                   imgFiles, imgDir, cacheMem, loaded, runUploads>>

\* the command is run again: a new process over the same disk and the same remote tree
StartSecondRun ==
    /\ mainPc = "exited" /\ run = 1
    /\ run' = 2
    /\ mainPc' = "launch"
    /\ nextIdx' = 1
    /\ sem' = 0
    /\ wg' = 0
    /\ errChan' = <<>>
    /\ closed' = FALSE
    /\ retErr' = "nil"
    /\ task' = [d \in Docs |-> IdleTask]
    /\ stats' = [totalDocs |-> NumDocs, docsNew |-> 0, totalImages |-> 0, imagesNew |-> 0]
    /\ remoteLog' = {}
    /\ runWrites' = 0
    /\ cacheMem' = {}
    /\ loaded' = FALSE
    /\ persistPending' = 0
    /\ runUploads' = 0
    /\ logs' = <<>>
    /\ UNCHANGED <<rlVars, treeVars, cacheVars, listVars, collideVars, lateVars>>
    /\ UNCHANGED <<cfg, remote, clock, crashed, files, faulted, imgFiles, imgDir, cacheFile>>

\* ---- tree resolution: Client.GetAllChildNodes and the path map ----

\* buildPaths(parentToken, parentPath), from position i of its loop over allNodes,
\* with pm the path map so far; nodes is allNodes
RECURSIVE buildPaths(_, _, _, _, _)
buildPaths(i, parentToken, parentPath, pm, nodes) ==
    IF i > Len(nodes) THEN pm
    ELSE IF tree[nodes[i]].parent # parentToken
         THEN buildPaths(i + 1, parentToken, parentPath, pm, nodes)
    ELSE LET nodePath == Join(parentPath, SanitizeFileName(tree[nodes[i]].name))
             pm1 == (nodes[i] :> nodePath) @@ pm
             pm2 == IF remote[nodes[i]].hasChild
                    THEN buildPaths(1, nodes[i], nodePath, pm1, nodes)
                    ELSE pm1
         IN  buildPaths(i + 1, parentToken, parentPath, pm2, nodes)

\* a path map of the root and its children only
PathMapTopLevel(nodes) ==
    (Root :> <<".">>) @@
    [n \in {nodes[i] : i \in {j \in 1..Len(nodes) : tree[nodes[j]].parent = Root}} |->
        Join(<<".">>, SanitizeFileName(tree[n].name))]

\* pathMap[nodeToken] = "."; buildPaths(nodeToken, ".")
PathMapOf(nodes) == buildPaths(1, Root, <<".">>, (Root :> <<".">>), nodes)

\* a resolution that records a listing error and goes on with the other nodes
ListChildrenBestEffort(ok) ==
    /\ Alive /\ mainPc = "resolve" /\ pendingList # NoNode
    /\ Unlimited("GetWikiNodeList")
    /\ stack' = Append(stack, IF ok THEN ChildrenOf(pendingList) ELSE <<>>)
    /\ listed' = [listed EXCEPT ![pendingList] = @ + 1]
    /\ pendingList' = NoNode
    /\ retErr' = IF ok THEN retErr ELSE "resolve"
    /\ faulted' = (faulted \/ ~ok)
    /\ UNCHANGED <<rlVars, imgVars>>
    /\ UNCHANGED <<cfg, remote, run, clock, mainPc, nextIdx, sem, wg, errChan, closed,
                   crashed, task, files, stats, runWrites>>
    /\ UNCHANGED <<tree, categoryLevel, allNodes, pathMap, opts>>
    /\ UNCHANGED <<cacheVars, moreVars>>

\* processNode(nodeToken) calls GetChildNodes: on an error every processNode on
\* the stack returns it and downloadWikiChildren returns an error
ListChildren(ok) ==
    /\ Alive /\ mainPc = "resolve" /\ pendingList # NoNode
    /\ Unlimited("GetWikiNodeList")
    /\ IF ok
       THEN /\ stack' = Append(stack, ChildrenOf(pendingList))
            /\ listed' = [listed EXCEPT ![pendingList] = @ + 1]
            /\ pendingList' = NoNode
            /\ UNCHANGED <<mainPc, retErr, faulted>>
       ELSE /\ mainPc' = "returned"
            /\ retErr' = "resolve"
            /\ faulted' = TRUE
            /\ UNCHANGED <<stack, listed, pendingList>>
    /\ UNCHANGED <<rlVars, imgVars>>
    /\ UNCHANGED <<cfg, remote, run, clock, nextIdx, sem, wg, errChan, closed, crashed,
                   task, files, stats, runWrites>>
    /\ UNCHANGED <<tree, categoryLevel, allNodes, pathMap, opts>>
    /\ UNCHANGED <<cacheVars, moreVars>>

\* the loop of processNode over nodes: the node is appended to result, and a
\* node with HasChild is processed recursively
VisitNode ==
    /\ Alive /\ mainPc = "resolve" /\ pendingList = NoNode
    /\ stack # <<>> /\ stack[Len(stack)] # <<>>
    /\ allNodes' = Append(allNodes, Head(stack[Len(stack)]))
    /\ stack' = [stack EXCEPT ![Len(stack)] = Tail(@)]
    /\ pendingList' = IF remote[Head(stack[Len(stack)])].hasChild
                      THEN Head(stack[Len(stack)]) ELSE NoNode
    /\ UNCHANGED <<rlVars, syncVars>>
    /\ UNCHANGED <<tree, categoryLevel, pathMap, listed, opts>>
    /\ UNCHANGED <<cacheVars, moreVars>>

\* the loop of a processNode is over: it returns nil
NodeReturn ==
    /\ Alive /\ mainPc = "resolve" /\ pendingList = NoNode
    /\ stack # <<>> /\ stack[Len(stack)] = <<>>
    /\ stack' = SubSeq(stack, 1, Len(stack) - 1)
    /\ UNCHANGED <<rlVars, syncVars>>
    /\ UNCHANGED <<tree, categoryLevel, allNodes, pathMap, pendingList, listed, opts>>
    /\ UNCHANGED <<cacheVars, moreVars>>

\* a run that starts its fan-out without building the path map
ResolvedNoPaths ==
    /\ Alive /\ mainPc = "resolve" /\ pendingList = NoNode /\ stack = <<>>
    /\ IF allNodes = <<>>
       THEN /\ mainPc' = "returned"
            /\ UNCHANGED stats
       ELSE /\ mainPc' = "launch"
            /\ stats' = [stats EXCEPT !.totalDocs = Len(allNodes)]
    /\ UNCHANGED <<rlVars, imgVars>>
    /\ UNCHANGED <<cfg, remote, run, clock, nextIdx, sem, wg, errChan, closed, retErr,
                   crashed, task, files, remoteLog, runWrites, faulted>>
    /\ UNCHANGED <<tree, categoryLevel, allNodes, pathMap, stack, pendingList, listed, opts>>
    /\ UNCHANGED <<cacheVars, moreVars>>

\* GetAllChildNodes has returned: with no node the run returns nil; otherwise
\* SetTotalDocs, the path map is built and the fan-out starts
Resolved ==
    /\ Alive /\ mainPc = "resolve" /\ pendingList = NoNode /\ stack = <<>>
    /\ IF allNodes = <<>>
       THEN /\ mainPc' = "returned"
            /\ UNCHANGED <<stats, pathMap>>
       ELSE /\ mainPc' = "launch"
            /\ stats' = [stats EXCEPT !.totalDocs = Len(allNodes)]
            /\ pathMap' = PathMapOf(allNodes)
    /\ UNCHANGED <<rlVars, imgVars>>
    /\ UNCHANGED <<cfg, remote, run, clock, nextIdx, sem, wg, errChan, closed, retErr,
                   crashed, task, files, remoteLog, runWrites, faulted>>
    /\ UNCHANGED <<tree, categoryLevel, allNodes, stack, pendingList, listed, opts>>
    /\ UNCHANGED <<cacheVars, moreVars>>

\* the tree of a run whose nodes are all children of the root, already resolved
TreeFlat ==
    /\ tree = [d \in Docs |-> [parent |-> Root, name |-> <<"a">>]]
    /\ categoryLevel = 0
    /\ allNodes = [i \in 1..NumDocs |-> i]
    /\ pathMap = (Root :> <<".">>) @@ [d \in Docs |-> <<"a">>]
    /\ stack = <<>>
    /\ pendingList = NoNode
    /\ listed = [n \in 0..NumDocs |-> IF n = Root THEN 1 ELSE 0]
    /\ opts = [d \in Docs |-> NoOpts]

\* ---- picgo's cache, one step of loadCache, GetCached, SaveCache and persistCache
\* ---- at a time

\* goroutines that call the cache, and the calls they make in all
NumGor == 2
MaxCacheCalls == 3

Gors == 1..NumGor
Writers == 1..MaxCacheCalls

IdleGor == [pc |-> "idle", op |-> "none", tok |-> 0, bad |-> FALSE, entries |-> {},
            mustHit |-> FALSE, res |-> "none"]
IdleWriter == [pc |-> "none", data |-> {}]

\* the log collector of a new process
ReportIdle == logs = <<>>

\* no goroutine is inside the cache and no cache file exists
CacheIdle ==
    /\ gor = [g \in Gors |-> IdleGor]
    /\ cacheDisk = "absent"
    /\ saved = {}
    /\ writers = [w \in Writers |-> IdleWriter]
    /\ cacheCalls = 0

\* ---- one paginated listing: Client.GetChildNodes and Client.GetWikiNodeList ----

\* pages the remote holds for one node, and items per page
MaxListPages == 3
MaxPageItems == 2

\* item j of page i
PageItems(sizes) == [i \in 1..Len(sizes) |-> [j \in 1..sizes[i] |-> 10 * i + j]]

\* the response to a request with page token c; 0 is the empty token, and the
\* token of page i's successor is i + 1
ListResp(c) ==
    LET i == IF c = 0 THEN 1 ELSE c
    IN  [items |-> pgRemote[i],
         hasMore |-> i < Len(pgRemote),
         pageToken |-> IF i < Len(pgRemote) THEN i + 1 ELSE 0]

IdleList == [pc |-> "idle", fn |-> "none", pageToken |-> 0, nodes |-> <<>>,
             resp |-> [hasMore |-> FALSE, pageToken |-> 0], prev |-> 0, reqs |-> <<>>]

\* no listing is modelled page by page
ListIdle ==
    /\ pgRemote = <<>>
    /\ lst = IdleList

\* what the listing actions leave alone
ListFrame ==
    /\ UNCHANGED <<rlVars, treeVars, cacheVars, reportVars, collideVars, lateVars>>
    /\ UNCHANGED <<cfg, remote, run, clock, mainPc, nextIdx, sem, wg, errChan, closed,
                   retErr, crashed, task, files, stats, runWrites, faulted, imgVars>>
    /\ UNCHANGED pgRemote

\* a GetChildNodes that returns after its first page
GetChildNodesFirstPage(ok) ==
    /\ lst.fn = "GetChildNodes" /\ lst.pc = "loop"
    /\ Unlimited("GetWikiNodeList")
    /\ lst' = IF ok
              THEN [lst EXCEPT !.reqs = Append(@, lst.pageToken), !.pc = "done",
                               !.nodes = @ \o ListResp(lst.pageToken).items]
              ELSE [lst EXCEPT !.reqs = Append(@, lst.pageToken), !.pc = "failed",
                               !.nodes = <<>>]
    /\ ListFrame

\* one turn of the loop of GetChildNodes: the request with pageToken, the items
\* appended; break unless HasMore and a page token, else pageToken = resp.PageToken
GetChildNodesRequest(ok) ==
    /\ lst.fn = "GetChildNodes" /\ lst.pc = "loop"
    /\ Unlimited("GetWikiNodeList")
    /\ lst' = IF ok
              THEN [lst EXCEPT
                      !.reqs = Append(@, lst.pageToken),
                      !.nodes = @ \o ListResp(lst.pageToken).items,
                      !.pc = IF ~ListResp(lst.pageToken).hasMore
                                \/ ListResp(lst.pageToken).pageToken = 0
                             THEN "done" ELSE "loop",
                      !.pageToken = IF ~ListResp(lst.pageToken).hasMore
                                       \/ ListResp(lst.pageToken).pageToken = 0
                                    THEN @ ELSE ListResp(lst.pageToken).pageToken]
              ELSE [lst EXCEPT !.reqs = Append(@, lst.pageToken), !.pc = "failed",
                               !.nodes = <<>>]
    /\ ListFrame

\* GetWikiNodeList: limiter.Wait, the first request (PageToken nil), nodes := resp.Items
GetWikiNodeListFirst(ok) ==
    /\ lst.fn = "GetWikiNodeList" /\ lst.pc = "first"
    /\ Limited("GetWikiNodeList")
    /\ lst' = IF ok
              THEN [lst EXCEPT !.reqs = Append(@, 0), !.pc = "loop",
                               !.nodes = ListResp(0).items,
                               !.resp = [hasMore |-> ListResp(0).hasMore,
                                         pageToken |-> ListResp(0).pageToken],
                               !.prev = 0]
              ELSE [lst EXCEPT !.reqs = Append(@, 0), !.pc = "failed"]
    /\ ListFrame

\* one turn of for resp.HasMore && previousPageToken != resp.PageToken: the
\* response of the request is assigned with := to a new resp inside the body, so
\* the resp of the loop condition stays the first response
GetWikiNodeListNext(ok) ==
    /\ lst.fn = "GetWikiNodeList" /\ lst.pc = "loop"
    /\ lst.resp.hasMore /\ lst.prev # lst.resp.pageToken
    /\ Unlimited("GetWikiNodeList")
    /\ lst' = IF ok
              THEN [lst EXCEPT !.reqs = Append(@, lst.resp.pageToken),
                               !.prev = lst.resp.pageToken,
                               !.nodes = @ \o ListResp(lst.resp.pageToken).items]
              ELSE [lst EXCEPT !.reqs = Append(@, lst.resp.pageToken),
                               !.prev = lst.resp.pageToken,
                               !.pc = "failed", !.nodes = <<>>]
    /\ ListFrame

\* the loop condition is false: return nodes, nil
GetWikiNodeListReturn ==
    /\ lst.fn = "GetWikiNodeList" /\ lst.pc = "loop"
    /\ ~(lst.resp.hasMore /\ lst.prev # lst.resp.pageToken)
    /\ lst' = [lst EXCEPT !.pc = "done"]
    /\ UNCHANGED remoteLog
    /\ ListFrame

\* ---- two documents with the same output path (Output.TitleAsFilename) ----

\* length of a rendered document
MaxContent == 2

Colliders == {1, 2}

\* titles that differ and sanitize to the same file name
CollidingTitles == {<<"b", "/", "c">>, <<"b", ":", "c">>, <<"b", "|", "c">>}

\* mdName with dlConfig.Output.TitleAsFilename, and outputPath below the output directory
MdName(d) == SanitizeFileName(tree[d].name) \o <<".", "m", "d">>
OutputPath(d) == Join(NodePath(d), MdName(d))

NoTarget == [exists |-> FALSE, data |-> <<>>, last |-> 0]
IdleCw == [pc |-> "idle", content |-> <<>>]

\* no such pair of tasks is modelled
CollideIdle ==
    /\ target = NoTarget
    /\ cw = [i \in Colliders |-> IdleCw]

\* what the steps of these two tasks leave alone
CollideFrame ==
    /\ UNCHANGED <<rlVars, treeVars, cacheVars, reportVars, listVars, lateVars>>
    /\ UNCHANGED syncVars

\* if !opts.forceDownload && shouldSkipFile(outputPath, result, opts.skipDuplicate)
\*     return nil
CwSkipCheck(i) ==
    /\ cw[i].pc = "check"
    /\ cw' = [cw EXCEPT ![i].pc =
                IF ~cfg.forceDownload
                   /\ shouldSkipFile(IF target.exists THEN target.data ELSE NoFile,
                                     cw[i].content, cfg.skipDuplicate)
                THEN "skipped" ELSE "open"]
    /\ UNCHANGED target
    /\ CollideFrame

\* os.WriteFile: OpenFile(name, O_WRONLY|O_CREATE|O_TRUNC, perm); on a failure the
\* task returns the error
CwOpen(i, ok) ==
    /\ cw[i].pc = "open"
    /\ IF ok
       THEN /\ target' = [target EXCEPT !.exists = TRUE, !.data = <<>>]
            /\ cw' = [cw EXCEPT ![i].pc = "write"]
       ELSE /\ cw' = [cw EXCEPT ![i].pc = "failed"]
            /\ UNCHANGED target
    /\ CollideFrame

\* os.WriteFile: f.Write(data) at offset 0 of the task's own descriptor, f.Close()
CwWrite(i) ==
    /\ cw[i].pc = "write"
    /\ target' = [target EXCEPT
                    !.data = cw[i].content
                             \o SubSeq(@, Len(cw[i].content) + 1, Len(@)),
                    !.last = i]
    /\ cw' = [cw EXCEPT ![i].pc = "written"]
    /\ CollideFrame

\* a run over text-only documents in an empty output directory
SchedInit ==
    /\ cfg = [forceDownload |-> FALSE, skipDuplicate |-> TRUE, picgoEnabled |-> FALSE]
    /\ \E types \in [Docs -> {"docx", "sheet"}] :
         remote = [d \in Docs |->
                     [type |-> types[d], objType |-> "docx", hasChild |-> FALSE,
                      pages |-> 1, body |-> <<>>, timesAvail |-> TRUE]]
    /\ run = 1
    /\ clock = 1
    /\ files = [d \in Docs |-> NoFile]
    /\ imgFiles = {}
    /\ imgDir = FALSE
    /\ cacheFile = {}
    /\ faulted = FALSE
    /\ ProcessStart

NextSched ==
    \/ Launch
    \/ LaunchDone
    \/ Closer
    \/ DrainErr
    \/ DrainClosed
    \/ ProcessExit
    \/ \E d \in Docs : \E ok \in BOOLEAN : TaskMkdir(d, ok)
    \/ \E d \in Docs : \E ok \in BOOLEAN : NodeInfo(d, ok)
    \/ \E d \in Docs : \E ok \in BOOLEAN : Children(d, ok)
    \/ \E d \in Docs : \E ok \in BOOLEAN : Meta(d, ok)
    \/ \E d \in Docs : \E ok \in BOOLEAN : Content(d, ok)
    \/ \E d \in Docs : \E ok \in BOOLEAN : ContentPage(d, ok)
    \/ \E d \in Docs : \E tick \in 0..1 : Times(d, tick)
    \/ \E d \in Docs : \E ok \in BOOLEAN : Write(d, ok)
    \/ \E d \in Docs : DeferDone(d)
    \/ \E d \in Docs : DeferSem(d)
    \/ \E d \in Docs : ProcessCrash(d)

vars == <<rlVars, syncVars, extVars>>

SyncIdle ==
    /\ cfg = [forceDownload |-> FALSE, skipDuplicate |-> TRUE, picgoEnabled |-> FALSE]
    /\ remote = [d \in Docs |->
                   [type |-> "sheet", objType |-> "docx", hasChild |-> FALSE,
                    pages |-> 1, body |-> <<>>, timesAvail |-> TRUE]]
    /\ run = 1
    /\ clock = 1
    /\ files = [d \in Docs |-> NoFile]
    /\ imgFiles = {}
    /\ imgDir = FALSE
    /\ cacheFile = {}
    /\ faulted = FALSE
    /\ ProcessStart

RLIdle ==
    /\ now = 0
    /\ perSecond = [tokens |-> SecBurst * SecUnit, lastEvent |-> 0]
    /\ perMinute = [tokens |-> MinBurst * MinUnit, lastEvent |-> 0]
    /\ okTotal = 0
    /\ caller = [c \in Callers |-> IdleCaller]
    /\ okRecent = [i \in 1..SecWindow |-> 0]
    /\ started = 0

\* ---- whole-wiki mode, the image worker pool and --clean-output: idle values ----

\* var maxConcurrency = 10 in downloadWiki
wikiConcurrency == 10
\* document nodes of the wiki
NumWikiDocs == 11
WikiDocs == 1..NumWikiDocs

\* maxImgConcurrency workers, and at most MaxImgTokens unique tokens
NumWorkers == 2
MaxImgTokens == 3
Workers == 1..NumWorkers

IdleWiki == [pc |-> "idle", idx |-> 0, sem |-> 0, wg |-> 0, closed |-> FALSE, ret |-> "none"]
IdlePool == [pc |-> "idle", n |-> 0, sent |-> 0, closed |-> FALSE, results |-> <<>>,
             got |-> <<>>]
IdleWorker == [pc |-> "none", tok |-> 0]

WikiIdle == wiki = IdleWiki /\ wt = [d \in WikiDocs |-> "idle"]
PoolIdle == pl = IdlePool /\ wk = [w \in Workers |-> IdleWorker]
CleanIdle == cleanOutput = FALSE /\ before = <<>>

IdleSan == [pc |-> "idle", title |-> <<>>, cur |-> <<>>, left |-> {}, out |-> <<>>, pass |-> 0]
SanIdle == san = IdleSan

LateIdle == WikiIdle /\ PoolIdle /\ CleanIdle /\ SanIdle

\* ---- downloadWiki: the traversal, the semaphore and the unbuffered errChan ----

WikiFrame ==
    /\ UNCHANGED <<rlVars, syncVars, treeVars, cacheVars>>
    /\ UNCHANGED <<reportVars, listVars, collideVars>>
    /\ UNCHANGED <<pl, wk, cleanOutput, before, san>>

\* downloadWikiNode reaches its next docx node: the GetWikiNodeList calls on the
\* way succeed, or one fails and downloadWiki returns the error; then wg.Add(1)
WikiNext(ok) ==
    /\ wiki.pc = "walk" /\ wiki.idx <= NumWikiDocs
    /\ IF ok
       THEN wiki' = [wiki EXCEPT !.pc = "acquire", !.wg = @ + 1]
       ELSE wiki' = [wiki EXCEPT !.pc = "returned", !.ret = "err"]
    /\ UNCHANGED wt
    /\ WikiFrame

\* semaphore <- struct{}{} (blocks while the semaphore is full); go func(...)
WikiLaunch ==
    /\ wiki.pc = "acquire" /\ wiki.sem < wikiConcurrency
    /\ wiki' = [wiki EXCEPT !.pc = "walk", !.sem = @ + 1, !.idx = @ + 1]
    /\ wt' = [wt EXCEPT ![wiki.idx] = "run"]
    /\ WikiFrame

\* the traversal is over: go func() { wg.Wait(); close(errChan) }()
WikiWalkDone ==
    /\ wiki.pc = "walk" /\ wiki.idx > NumWikiDocs
    /\ wiki' = [wiki EXCEPT !.pc = "drain"]
    /\ UNCHANGED wt
    /\ WikiFrame

\* downloadDocument returns: nil, then wg.Done() and <-semaphore; or an error,
\* and the task blocks in errChan <- err until a receiver is there
WikiTask(d, ok) ==
    /\ wt[d] = "run"
    /\ IF ok
       THEN /\ wt' = [wt EXCEPT ![d] = "done"]
            /\ wiki' = [wiki EXCEPT !.wg = @ - 1, !.sem = @ - 1]
       ELSE /\ wt' = [wt EXCEPT ![d] = "send"]
            /\ UNCHANGED wiki
    /\ WikiFrame

\* for err := range errChan { return err }: the receive meets a blocked sender,
\* which then does wg.Done() and <-semaphore
WikiRecvErr(d) ==
    /\ wiki.pc = "drain" /\ wt[d] = "send"
    /\ wt' = [wt EXCEPT ![d] = "done"]
    /\ wiki' = [wiki EXCEPT !.pc = "returned", !.ret = "err", !.wg = @ - 1, !.sem = @ - 1]
    /\ WikiFrame

\* wg.Wait() returns: close(errChan)
WikiCloser ==
    /\ wiki.pc \in {"drain", "returned"} /\ wiki.idx > NumWikiDocs
    /\ wiki.wg = 0 /\ ~wiki.closed
    /\ wiki' = [wiki EXCEPT !.closed = TRUE]
    /\ UNCHANGED wt
    /\ WikiFrame

\* the range loop ends on the closed channel: return nil
WikiDrainClosed ==
    /\ wiki.pc = "drain" /\ wiki.closed
    /\ wiki' = [wiki EXCEPT !.pc = "returned", !.ret = "nil"]
    /\ UNCHANGED wt
    /\ WikiFrame

\* downloadWiki about to traverse a wiki of NumWikiDocs documents
WikiInit ==
    /\ wiki = [IdleWiki EXCEPT !.pc = "walk", !.idx = 1]
    /\ wt = [d \in WikiDocs |-> "idle"]

InitWiki == WikiInit /\ RLIdle /\ SyncIdle /\ TreeFlat /\ CacheIdle /\ ReportIdle /\ ListIdle
            /\ CollideIdle /\ PoolIdle /\ CleanIdle /\ SanIdle

NextWiki ==
    \/ \E ok \in BOOLEAN : WikiNext(ok)
    \/ WikiLaunch
    \/ WikiWalkDone
    \/ \E d \in WikiDocs : \E ok \in BOOLEAN : WikiTask(d, ok)
    \/ \E d \in WikiDocs : WikiRecvErr(d)
    \/ WikiCloser
    \/ WikiDrainClosed

SpecWiki == InitWiki /\ [][NextWiki]_vars

\* ---- the image worker pool of downloadDocument ----

PoolFrame ==
    /\ UNCHANGED <<rlVars, syncVars, treeVars, cacheVars>>
    /\ UNCHANGED <<reportVars, listVars, collideVars>>
    /\ UNCHANGED <<wiki, wt, cleanOutput, before, san>>

\* what a worker finds for a token: a cached URL, a failed download, a local file
Outcomes == {"cached", "failed", "local"}

\* jobs <- token meets a worker's receive in `for token := range jobs` (jobs is
\* unbuffered)
PoolHandoff(w) ==
    /\ pl.pc = "send" /\ pl.sent < pl.n
    /\ wk[w].pc = "recv"
    /\ wk' = [wk EXCEPT ![w] = [pc |-> "work", tok |-> pl.sent + 1]]
    /\ pl' = [pl EXCEPT !.sent = @ + 1]
    /\ PoolFrame

\* every token is sent: close(jobs)
PoolClose ==
    /\ pl.pc = "send" /\ pl.sent = pl.n
    /\ pl' = [pl EXCEPT !.pc = "collect", !.closed = TRUE]
    /\ UNCHANGED wk
    /\ PoolFrame

\* a worker that sends no result for a failed download
PoolWorkDropsFailure(w, out) ==
    /\ wk[w].pc = "work"
    /\ Len(pl.results) < pl.n
    /\ pl' = [pl EXCEPT !.results = IF out = "failed" THEN @
                                    ELSE Append(@, [tok |-> wk[w].tok, out |-> out])]
    /\ wk' = [wk EXCEPT ![w] = [pc |-> "recv", tok |-> 0]]
    /\ PoolFrame

\* the worker's loop body: on each of its three paths one
\* results <- result{...} (results has room for len(uniqueTokens)), then continue
PoolWork(w, out) ==
    /\ wk[w].pc = "work"
    /\ Len(pl.results) < pl.n
    /\ pl' = [pl EXCEPT !.results = Append(@, [tok |-> wk[w].tok, out |-> out])]
    /\ wk' = [wk EXCEPT ![w] = [pc |-> "recv", tok |-> 0]]
    /\ PoolFrame

\* range jobs ends on the closed channel: the worker returns
PoolExit(w) ==
    /\ wk[w].pc = "recv" /\ pl.closed
    /\ wk' = [wk EXCEPT ![w].pc = "exit"]
    /\ UNCHANGED pl
    /\ PoolFrame

\* for i := 0; i < len(uniqueTokens); i++ { r := <-results ... }
PoolCollect ==
    /\ pl.pc = "collect" /\ Len(pl.got) < pl.n
    /\ pl.results # <<>>
    /\ pl' = [pl EXCEPT !.got = Append(@, Head(pl.results)),
                        !.results = Tail(@),
                        !.pc = IF Len(pl.got) + 1 = pl.n THEN "done" ELSE "collect"]
    /\ UNCHANGED wk
    /\ PoolFrame

\* a document with n unique image tokens; the workers have been started
PoolInit ==
    /\ \E n \in 1..MaxImgTokens : pl = [IdlePool EXCEPT !.pc = "send", !.n = n]
    /\ wk = [w \in Workers |-> [pc |-> "recv", tok |-> 0]]

InitPool == PoolInit /\ RLIdle /\ SyncIdle /\ TreeFlat /\ CacheIdle /\ ReportIdle /\ ListIdle
            /\ CollideIdle /\ WikiIdle /\ CleanIdle /\ SanIdle

NextPool ==
    \/ \E w \in Workers : PoolHandoff(w)
    \/ PoolClose
    \/ \E w \in Workers : \E out \in Outcomes : PoolWork(w, out)
    \/ \E w \in Workers : PoolExit(w)
    \/ PoolCollect

\* every goroutine that can run is eventually scheduled
SpecPool == InitPool /\ [][NextPool]_vars /\ WF_vars(NextPool)

\* ---- SanitizeFileName, one replacement rule at a time ----

\* display names of at most MaxTitleLen characters
MaxTitleLen == 2

\* the characters SanitizeFileName replaces, and the alphabet of the titles
Forbidden == {"/", "\\", ":", "*", "?", "\"", "<", ">", "|"}
TitleChars == Forbidden \cup {" ", ".", "a", "-"}
Titles == UNION {[1..n -> TitleChars] : n \in 0..MaxTitleLen}

\* the replacements map; Go ranges over it in an unspecified order
Replacements ==
    << [from |-> "/", to |-> "-"], [from |-> "\\", to |-> "-"], [from |-> ":", to |-> "-"],
       [from |-> "*", to |-> "STAR"], [from |-> "?", to |-> "QMARK"],
       [from |-> "\"", to |-> "'"], [from |-> "<", to |-> "LBOOK"],
       [from |-> ">", to |-> "RBOOK"], [from |-> "|", to |-> "-"] >>

SanFrame ==
    /\ UNCHANGED <<rlVars, syncVars, treeVars, cacheVars>>
    /\ UNCHANGED <<reportVars, listVars, collideVars>>
    /\ UNCHANGED <<wiki, wt, pl, wk, cleanOutput, before>>

\* strings.Replace(s, from, to, 1): the first occurrence only
ReplaceFirst(str, from, to) ==
    [i \in 1..Len(str) |->
        IF str[i] = from /\ \A j \in 1..(i - 1) : str[j] # from THEN to ELSE str[i]]

\* strings.ReplaceAll(s, from, to) for a one-character from
ReplaceAll(str, from, to) ==
    [i \in 1..Len(str) |-> IF str[i] = from THEN to ELSE str[i]]

\* one turn of `for invalid, replacement := range replacements`, for any entry
\* not yet visited
SanApply(r) ==
    /\ san.pc = "rules" /\ r \in san.left
    /\ san' = [san EXCEPT !.cur = ReplaceAll(@, Replacements[r].from, Replacements[r].to),
                          !.left = @ \ {r}]
    /\ SanFrame

\* after the loop: strings.TrimSpace, and "untitled" for "", "." and ".."
SanFinish ==
    /\ san.pc = "rules" /\ san.left = {}
    /\ LET t == TrimSpace(san.cur)
       IN  san' = [san EXCEPT !.pc = "done",
                              !.out = IF t = <<>> \/ t = <<".">> \/ t = <<".", ".">>
                                      THEN Untitled ELSE t]
    /\ SanFrame

\* the result is sanitized again
SanAgain ==
    /\ san.pc = "done" /\ san.pass = 1
    /\ san' = [pc |-> "rules", title |-> san.out, cur |-> san.out,
               left |-> DOMAIN Replacements, out |-> <<>>, pass |-> 2]
    /\ SanFrame

\* SanitizeFileName is called with any title
SanInit ==
    \E title \in Titles :
        san = [pc |-> "rules", title |-> title, cur |-> title,
               left |-> DOMAIN Replacements, out |-> <<>>, pass |-> 1]

InitSan == SanInit /\ RLIdle /\ SyncIdle /\ TreeFlat /\ CacheIdle /\ ReportIdle /\ ListIdle
           /\ CollideIdle /\ WikiIdle /\ PoolIdle /\ CleanIdle

NextSan ==
    \/ \E r \in DOMAIN Replacements : SanApply(r)
    \/ SanFinish
    \/ SanAgain

SpecSan == InitSan /\ [][NextSan]_vars

\* the limiter alone: no run is in progress
InitRL == RLInit /\ SyncIdle /\ TreeFlat /\ CacheIdle /\ ReportIdle /\ ListIdle /\ CollideIdle
           /\ LateIdle

SpecRL == InitRL /\ [][NextRL]_vars

\* the limiter used through Allow and AllowN only
SpecAllow == InitRL /\ [][NextAllow]_vars

\* the scheduler over a limiter whose Wait never fails
InitSched == SchedInit /\ RLIdle /\ TreeFlat /\ CacheIdle /\ ReportIdle /\ ListIdle /\ CollideIdle
           /\ LateIdle

SpecSched == InitSched /\ [][NextSched]_vars

\* two runs over a tree whose only document (the last node) may have images,
\* under every configuration
DocBodies == {<<>>, <<1>>, <<1, 1, 2>>}

DocInit ==
    /\ cfg \in [forceDownload : BOOLEAN, skipDuplicate : BOOLEAN, picgoEnabled : BOOLEAN]
    /\ \E body \in DocBodies : \E hc \in BOOLEAN : \E ta \in BOOLEAN :
         remote = [d \in Docs |->
                     [type |-> IF d = NumDocs THEN "docx" ELSE "sheet", objType |-> "docx",
                      hasChild |-> (hc /\ d = NumDocs), pages |-> MaxPages,
                      body |-> IF d = NumDocs THEN body ELSE <<>>, timesAvail |-> ta]]
    /\ run = 1
    /\ clock = 1
    /\ files \in {[d \in Docs |-> NoFile], [d \in Docs |-> Unreadable]}
    /\ imgFiles = {}
    /\ imgDir = FALSE
    /\ cacheFile = {}
    /\ faulted = FALSE
    /\ ProcessStart

NextDoc ==
    \/ NextSched
    \/ \E d \in Docs : \E t \in Tokens : \E ok \in BOOLEAN : ResolveImage(d, t, ok)
    \/ \E d \in Docs : Collect(d)
    \/ \E d \in Docs : \E t \in Tokens : UploadBegin(d, t)
    \/ \E d \in Docs : \E t \in Tokens : \E ok \in BOOLEAN : UploadOne(d, t, ok)
    \/ \E d \in Docs : AfterUpload(d)
    \/ PersistCache
    \/ StartSecondRun

\* the tree of that run, already resolved: every node is a child of the root,
\* except that the first node is the child of the document when it has children
DocTree ==
    /\ tree = [d \in Docs |->
                 [parent |-> IF d = 1 /\ remote[NumDocs].hasChild THEN NumDocs ELSE Root,
                  name |-> <<"a">>]]
    /\ categoryLevel = 0
    /\ allNodes = IF remote[NumDocs].hasChild
                  THEN [i \in 1..NumDocs |-> IF i < NumDocs THEN i + 1 ELSE 1]
                  ELSE [i \in 1..NumDocs |-> i]
    /\ pathMap = PathMapOf(allNodes)
    /\ stack = <<>>
    /\ pendingList = NoNode
    /\ listed = [n \in 0..NumDocs |->
                   IF n = Root \/ (n = NumDocs /\ remote[NumDocs].hasChild) THEN 1 ELSE 0]
    /\ opts = [d \in Docs |-> NoOpts]

InitDoc == DocInit /\ RLIdle /\ DocTree /\ CacheIdle /\ ReportIdle /\ ListIdle /\ CollideIdle
           /\ LateIdle

\* one run, picgo enabled, over a tree whose last two nodes are documents with images
UpInit ==
    /\ cfg = [forceDownload |-> FALSE, skipDuplicate |-> TRUE, picgoEnabled |-> TRUE]
    /\ \E b1 \in {<<1>>, <<2>>} : \E b2 \in {<<1>>} :
         remote = [d \in Docs |->
                     [type |-> IF d >= NumDocs - 1 THEN "docx" ELSE "sheet",
                      objType |-> "docx", hasChild |-> FALSE, pages |-> 1,
                      body |-> IF d = NumDocs THEN b1
                               ELSE IF d = NumDocs - 1 THEN b2 ELSE <<>>,
                      timesAvail |-> TRUE]]
    /\ run = 1
    /\ clock = 1
    /\ files = [d \in Docs |-> NoFile]
    /\ imgFiles = {}
    /\ imgDir = FALSE
    /\ cacheFile = {}
    /\ faulted = FALSE
    /\ ProcessStart

\* ---- the cache goroutines' steps ----

\* what the cache actions leave alone
CacheFrame ==
    /\ UNCHANGED <<rlVars, treeVars, moreVars>>
    /\ UNCHANGED <<cfg, remote, run, clock, mainPc, nextIdx, sem, wg, errChan, closed,
                   retErr, crashed, task, files, stats, remoteLog, runWrites, faulted>>
    /\ UNCHANGED <<imgFiles, imgDir, persistPending, runUploads>>

\* GetCached(token) is called: it starts with loadCache()
CallGetCached(g, t) ==
    /\ gor[g].pc = "idle" /\ cacheCalls < MaxCacheCalls
    /\ gor' = [gor EXCEPT ![g] = [IdleGor EXCEPT !.pc = "check", !.op = "get", !.tok = t,
                                                 !.mustHit = (t \in saved)]]
    /\ cacheCalls' = cacheCalls + 1
    /\ CacheFrame
    /\ UNCHANGED <<cacheFile, cacheMem, loaded, cacheDisk, saved, writers>>

\* SaveCache(token, url) is called: it starts with loadCache()
CallSaveCache(g, t) ==
    /\ gor[g].pc = "idle" /\ cacheCalls < MaxCacheCalls
    /\ gor' = [gor EXCEPT ![g] = [IdleGor EXCEPT !.pc = "check", !.op = "save", !.tok = t]]
    /\ cacheCalls' = cacheCalls + 1
    /\ CacheFrame
    /\ UNCHANGED <<cacheFile, cacheMem, loaded, cacheDisk, saved, writers>>

\* loadCache: if loaded { return }, read without the lock
LoadCheck(g) ==
    /\ gor[g].pc = "check"
    /\ gor' = [gor EXCEPT ![g].pc = IF loaded THEN "body" ELSE "read"]
    /\ CacheFrame
    /\ UNCHANGED <<cacheFile, cacheMem, loaded, cacheDisk, saved, writers, cacheCalls>>

\* loadCache: os.ReadFile(cacheFile); on an error loaded = true and return
LoadRead(g) ==
    /\ gor[g].pc = "read"
    /\ IF cacheDisk = "absent"
       THEN /\ loaded' = TRUE
            /\ gor' = [gor EXCEPT ![g].pc = "body"]
       ELSE /\ gor' = [gor EXCEPT ![g].pc = "unmarshal", ![g].bad = (cacheDisk = "torn"),
                                  ![g].entries = cacheFile]
            /\ UNCHANGED loaded
    /\ CacheFrame
    /\ UNCHANGED <<cacheFile, cacheMem, cacheDisk, saved, writers, cacheCalls>>

\* loadCache under cacheMu: json.Unmarshal(data, &cache) adds the entries of the
\* file to the map; on an error cache = make(map[string]string); loaded = true
LoadUnmarshal(g) ==
    /\ gor[g].pc = "unmarshal"
    /\ cacheMem' = IF gor[g].bad THEN {} ELSE cacheMem \cup gor[g].entries
    /\ loaded' = TRUE
    /\ gor' = [gor EXCEPT ![g].pc = "body"]
    /\ CacheFrame
    /\ UNCHANGED <<cacheFile, cacheDisk, saved, writers, cacheCalls>>

\* GetCached under cacheMu.RLock: url, ok := cache[token]; return
GetReturn(g) ==
    /\ gor[g].pc = "body" /\ gor[g].op = "get"
    /\ gor' = [gor EXCEPT ![g].pc = "idle",
                          ![g].res = IF gor[g].tok \in cacheMem THEN "hit" ELSE "miss"]
    /\ CacheFrame
    /\ UNCHANGED <<cacheFile, cacheMem, loaded, cacheDisk, saved, writers, cacheCalls>>

\* SaveCache under cacheMu.Lock: cache[token] = url; go persistCache(); return
SaveReturn(g) ==
    /\ gor[g].pc = "body" /\ gor[g].op = "save"
    /\ cacheMem' = cacheMem \cup {gor[g].tok}
    /\ saved' = saved \cup {gor[g].tok}
    /\ LET w == CHOOSE i \in Writers :
                  /\ writers[i].pc = "none"
                  /\ \A j \in Writers : writers[j].pc = "none" => i <= j
       IN  writers' = [writers EXCEPT ![w].pc = "start"]
    /\ gor' = [gor EXCEPT ![g].pc = "idle"]
    /\ CacheFrame
    /\ UNCHANGED <<cacheFile, loaded, cacheDisk, cacheCalls>>

\* persistCache: json.MarshalIndent(cache) under cacheMu.RLock
PersistMarshal(w) ==
    /\ writers[w].pc = "start"
    /\ writers' = [writers EXCEPT ![w] = [pc |-> "open", data |-> cacheMem]]
    /\ CacheFrame
    /\ UNCHANGED <<cacheFile, cacheMem, loaded, gor, cacheDisk, saved, cacheCalls>>

\* os.WriteFile opens the file with O_CREATE|O_TRUNC: the file is empty
PersistTruncate(w) ==
    /\ writers[w].pc = "open"
    /\ cacheDisk' = "torn"
    /\ writers' = [writers EXCEPT ![w].pc = "write"]
    /\ CacheFrame
    /\ UNCHANGED <<cacheFile, cacheMem, loaded, gor, saved, cacheCalls>>

\* os.WriteFile writes the data and closes the file
PersistWrite(w) ==
    /\ writers[w].pc = "write"
    /\ cacheFile' = writers[w].data
    /\ cacheDisk' = "ok"
    /\ writers' = [writers EXCEPT ![w].pc = "done"]
    /\ CacheFrame
    /\ UNCHANGED <<cacheMem, loaded, gor, saved, cacheCalls>>

\* a process that has not used the cache yet; the cache file is absent or holds
\* the entries of an earlier process
CacheInit ==
    /\ cfg = [forceDownload |-> FALSE, skipDuplicate |-> TRUE, picgoEnabled |-> TRUE]
    /\ remote = [d \in Docs |->
                   [type |-> "sheet", objType |-> "docx", hasChild |-> FALSE,
                    pages |-> 1, body |-> <<>>, timesAvail |-> TRUE]]
    /\ run = 1
    /\ clock = 1
    /\ files = [d \in Docs |-> NoFile]
    /\ imgFiles = {}
    /\ imgDir = FALSE
    /\ faulted = FALSE
    /\ ProcessStart
    /\ \/ cacheDisk = "absent" /\ cacheFile = {}
       \/ cacheDisk = "ok" /\ cacheFile \in SUBSET Tokens
    /\ gor = [g \in Gors |-> IdleGor]
    /\ saved = {}
    /\ writers = [w \in Writers |-> IdleWriter]
    /\ cacheCalls = 0

InitCache == CacheInit /\ RLIdle /\ TreeFlat /\ ReportIdle /\ ListIdle /\ CollideIdle
           /\ LateIdle

NextCache ==
    \/ \E g \in Gors : \E t \in Tokens : CallGetCached(g, t)
    \/ \E g \in Gors : \E t \in Tokens : CallSaveCache(g, t)
    \/ \E g \in Gors : LoadCheck(g)
    \/ \E g \in Gors : LoadRead(g)
    \/ \E g \in Gors : LoadUnmarshal(g)
    \/ \E g \in Gors : GetReturn(g)
    \/ \E g \in Gors : SaveReturn(g)
    \/ \E w \in Writers : PersistMarshal(w)
    \/ \E w \in Writers : PersistTruncate(w)
    \/ \E w \in Writers : PersistWrite(w)

SpecCache == InitCache /\ [][NextCache]_vars

\* node titles: one that needs no change, one with a path separator, one that
\* is ".." once trimmed
RawNames == << <<"a">>, <<"b", "/", "c">>, <<" ", ".", ".">> >>

\* a run from its start: a tree of any shape (the parent of a node is the root
\* or a node listed before it), any HasChild flags, any category level; one
\* node is a document, the others are sheets
TreeInit ==
    /\ cfg = [forceDownload |-> FALSE, skipDuplicate |-> TRUE, picgoEnabled |-> FALSE]
    /\ \E hc \in [Docs -> BOOLEAN] : \E dx \in Docs :
         remote = [d \in Docs |->
                     [type |-> IF d = dx THEN "docx" ELSE "sheet", objType |-> "docx",
                      hasChild |-> hc[d], pages |-> 1, body |-> <<>>, timesAvail |-> TRUE]]
    /\ \E par \in [Docs -> 0..NumDocs] : \E k \in 0..(Len(RawNames) - 1) :
         /\ \A d \in Docs : par[d] < d
         /\ tree = [d \in Docs |->
                      [parent |-> par[d], name |-> RawNames[((d + k) % Len(RawNames)) + 1]]]
    /\ categoryLevel \in (0 - MaxLevel)..MaxLevel
    /\ run = 1
    /\ clock = 1
    /\ files = [d \in Docs |-> NoFile]
    /\ imgFiles = {}
    /\ imgDir = FALSE
    /\ cacheFile = {}
    /\ faulted = FALSE
    /\ mainPc = "resolve"
    /\ nextIdx = 1
    /\ sem = 0
    /\ wg = 0
    /\ errChan = <<>>
    /\ closed = FALSE
    /\ retErr = "nil"
    /\ crashed = FALSE
    /\ task = [d \in Docs |-> IdleTask]
    /\ stats = [totalDocs |-> 0, docsNew |-> 0, totalImages |-> 0, imagesNew |-> 0]
    /\ remoteLog = {}
    /\ runWrites = 0
    /\ cacheMem = {}
    /\ loaded = FALSE
    /\ persistPending = 0
    /\ runUploads = 0
    /\ allNodes = <<>>
    /\ pathMap = [n \in {} |-> <<>>]
    /\ stack = <<>>
    /\ pendingList = Root
    /\ listed = [n \in 0..NumDocs |-> 0]
    /\ opts = [d \in Docs |-> NoOpts]

InitTree == TreeInit /\ RLIdle /\ CacheIdle /\ ReportIdle /\ ListIdle /\ CollideIdle
           /\ LateIdle

\* ---- a run with the output directory of an earlier run, and --clean-output ----

\* if opts.cleanOutput: os.RemoveAll(opts.outputDir), which on a failure may
\* have removed any part of the directory; then os.MkdirAll(opts.outputDir);
\* downloadWikiChildren returns the error of either
PrepareOutput(okRemove, okMkdir) ==
    /\ Alive /\ mainPc = "prepare"
    /\ IF cleanOutput
       THEN IF okRemove
            THEN /\ files' = [d \in Docs |-> NoFile]
                 /\ imgFiles' = {}
                 /\ imgDir' = FALSE
            ELSE /\ \E keep \in SUBSET Docs :
                      files' = [d \in Docs |-> IF d \in keep THEN files[d] ELSE NoFile]
                 /\ UNCHANGED <<imgFiles, imgDir>>
       ELSE UNCHANGED <<files, imgFiles, imgDir>>
    /\ IF (cleanOutput /\ ~okRemove) \/ ~okMkdir
       THEN /\ mainPc' = "returned"
            /\ retErr' = "prepare"
            /\ faulted' = TRUE
       ELSE /\ mainPc' = "resolve"
            /\ UNCHANGED <<retErr, faulted>>
    /\ UNCHANGED <<rlVars, treeVars, cacheVars, reportVars, listVars, collideVars>>
    /\ UNCHANGED <<lateVars>>
    /\ UNCHANGED <<cfg, remote, run, clock, nextIdx, sem, wg, errChan, closed, crashed,
                   task, stats, remoteLog, runWrites, cacheFile, cacheMem, loaded,
                   persistPending, runUploads>>

\* a run from its start over the output directory an earlier run left: a tree of
\* any shape with one document, and any of the document files already there
CleanInit ==
    /\ cfg = [forceDownload |-> FALSE, skipDuplicate |-> TRUE, picgoEnabled |-> FALSE]
    /\ \E hc \in [Docs -> BOOLEAN] : \E dx \in Docs :
         remote = [d \in Docs |->
                     [type |-> IF d = dx THEN "docx" ELSE "sheet", objType |-> "docx",
                      hasChild |-> hc[d], pages |-> 1, body |-> <<>>, timesAvail |-> TRUE]]
    /\ \E par \in [Docs -> 0..NumDocs] :
         /\ \A d \in Docs : par[d] < d
         /\ tree = [d \in Docs |->
                      [parent |-> par[d], name |-> RawNames[(d % Len(RawNames)) + 1]]]
    /\ categoryLevel = 0
    /\ run = 1
    /\ clock = 1
    /\ \E have \in SUBSET Docs :
         files = [d \in Docs |->
                    IF d \in have THEN Render(d, <<0, 0>>, IdleTask.res) ELSE NoFile]
    /\ imgFiles = {}
    /\ imgDir = FALSE
    /\ cacheFile = {}
    /\ faulted = FALSE
    /\ mainPc = "prepare"
    /\ nextIdx = 1
    /\ sem = 0
    /\ wg = 0
    /\ errChan = <<>>
    /\ closed = FALSE
    /\ retErr = "nil"
    /\ crashed = FALSE
    /\ task = [d \in Docs |-> IdleTask]
    /\ stats = [totalDocs |-> 0, docsNew |-> 0, totalImages |-> 0, imagesNew |-> 0]
    /\ remoteLog = {}
    /\ runWrites = 0
    /\ cacheMem = {}
    /\ loaded = FALSE
    /\ persistPending = 0
    /\ runUploads = 0
    /\ allNodes = <<>>
    /\ pathMap = [n \in {} |-> <<>>]
    /\ stack = <<>>
    /\ pendingList = Root
    /\ listed = [n \in 0..NumDocs |-> 0]
    /\ opts = [d \in Docs |-> NoOpts]
    /\ cleanOutput \in BOOLEAN
    /\ before = files

InitClean == CleanInit /\ RLIdle /\ CacheIdle /\ ReportIdle /\ ListIdle /\ CollideIdle
             /\ WikiIdle /\ PoolIdle /\ SanIdle

NextTree ==
    \/ \E ok \in BOOLEAN : ListChildren(ok)
    \/ VisitNode
    \/ NodeReturn
    \/ Resolved
    \/ NextSched

SpecTree == InitTree /\ [][NextTree]_vars

NextClean ==
    \/ \E okRemove \in BOOLEAN : \E okMkdir \in BOOLEAN : PrepareOutput(okRemove, okMkdir)
    \/ NextTree

SpecClean == InitClean /\ [][NextClean]_vars

InitUp == UpInit /\ RLIdle /\ TreeFlat /\ CacheIdle /\ ReportIdle /\ ListIdle /\ CollideIdle
           /\ LateIdle

NextUp ==
    \/ NextSched
    \/ \E d \in Docs : \E t \in Tokens : \E ok \in BOOLEAN : ResolveImage(d, t, ok)
    \/ \E d \in Docs : Collect(d)
    \/ \E d \in Docs : \E t \in Tokens : UploadBegin(d, t)
    \/ \E d \in Docs : \E t \in Tokens : \E ok \in BOOLEAN : UploadOne(d, t, ok)
    \/ \E d \in Docs : AfterUpload(d)
    \/ PersistCache

SpecUp == InitUp /\ [][NextUp]_vars

SpecDoc == InitDoc /\ [][NextDoc]_vars

(***************************************************************************)
(* Claims about the rate limiter (checked under SpecRL).                   *)
(***************************************************************************)

\* C1: in any rolling one-second window at most SecRate (5) Wait calls return ok,
\* and in any rolling one-minute window at most MinRate (100).  okRecent holds the
\* ok returns of the last SecWindow ticks; a behaviour is shorter than a minute
\* (MaxTime < MinWindow), so okTotal is the count of the current minute window.
C1_RollingWindowCeilings ==
    /\ SumSeq(okRecent) <= SecRate
    /\ okTotal <= MinRate

\* C3: a Wait/WaitN(n) call that returned ok, and so lets its caller issue the
\* remote call, holds n tokens of the per-second bucket and n tokens of the
\* per-minute bucket.
C3_OkConsumedBoth ==
    \A c \in Callers :
        caller[c].pc = "ok" =>
            /\ caller[c].secTaken = caller[c].n * SecUnit
            /\ caller[c].minTaken = caller[c].n * MinUnit

\* a WaitN(2) call that slept in its second stage and then returned ok
C3_Witness ==
    \E c \in Callers :
        /\ caller[c].pc = "ok"
        /\ caller[c].n = MaxN
        /\ caller[c].r.timeToAct > 0
        /\ caller[c].r.tokens = caller[c].n * MinUnit

\* C4: a Wait call that returns the cancellation error has consumed nothing from
\* either bucket, at whichever stage the cancellation found it.
C4_CancelConsumesNothing ==
    \A c \in Callers :
        (caller[c].pc = "err" /\ caller[c].ctxDone) =>
            /\ caller[c].secTaken = 0
            /\ caller[c].minTaken = 0


(***************************************************************************)
(* Claims about the scheduler (checked under SpecSched).                   *)
(***************************************************************************)

\* a task that was launched and whose goroutine has not ended
InFlight(d) == task[d].pc \notin {"idle", "exited", "crash"}

\* downloadDocument (or the MkdirAll before it) has returned or panicked
BodyDone(d) == task[d].pc \in {"deferDone", "deferSem", "exited", "crash"}

\* C5: at every moment the number of launched, unfinished document tasks is at
\* most the concurrency limit.
C5_BoundedInFlight ==
    Cardinality({d \in Docs : InFlight(d)}) <= maxConcurrency

\* the pool is full and the launch loop is waiting for a slot for the next document
C5_Witness ==
    /\ mainPc = "launch"
    /\ nextIdx <= Len(allNodes)
    /\ remote[allNodes[nextIdx]].type = "docx"
    /\ sem = maxConcurrency
    /\ Cardinality({d \in Docs : InFlight(d)}) = maxConcurrency

\* C6: when downloadWikiChildren returns, with or without an error, every
\* document task it launched has finished.
C6_ReturnsAfterAllTasks ==
    mainPc = "returned" => \A d \in Docs : task[d].pc # "idle" => BodyDone(d)

\* C7: a metadata or content fetch failure of one document does not abort the
\* process; the run returns a non-nil error, and when it returns the output file
\* of every sibling document exists.
C7_FetchFailureIsolated ==
    \A d \in Docs :
        task[d].fetchFailed =>
            /\ ~crashed
            /\ mainPc = "returned" =>
                 /\ retErr # "nil"
                 /\ \A e \in Docs \ {d} :
                      (remote[e].type = "docx" /\ ~task[e].panicking) => files[e] # NoFile


(***************************************************************************)
(* Claims about one document's processing (checked under SpecDoc).         *)
(***************************************************************************)

\* C2: every call of the remote store issued during a run was preceded by a
\* RateLimiter.Wait that returned ok for it.
C2_EveryRemoteCallLimited ==
    \A c \in remoteLog : c.waited

ImageFailed(d) == \E t \in UniqueTokens(d) : task[d].res[t] \in {"fail", "upfail"}

\* C8: a task some of whose images failed to download or to upload does not panic
\* and returns no error on their account (only a failed WriteFile can still make
\* it fail); when it returns no error, the file on disk has the hash of the
\* rendered output: it was written, or skipped as unchanged.
C8_ImageFailureIsSoft ==
    \A d \in Docs :
        (BodyDone(d) /\ ImageFailed(d)) =>
            /\ ~task[d].panicking
            /\ task[d].err \in {"nil", "write"}
            /\ task[d].err = "nil" =>
                 calculateMD5(files[d]) = calculateMD5(Render(d, task[d].fm, task[d].res))

\* one image failed to download, another failed to upload, and the document was written
C8_Witness ==
    \E d \in Docs :
        /\ BodyDone(d)
        /\ task[d].err = "nil"
        /\ \E t \in UniqueTokens(d) : task[d].res[t] = "fail"
        /\ \E t \in UniqueTokens(d) : task[d].res[t] = "upfail"
        /\ files[d] = Render(d, task[d].fm, task[d].res)

\* the write decision of the step that leaves pc "write"
MustWrite(d) ==
    \/ cfg.forceDownload
    \/ ~cfg.skipDuplicate
    \/ files[d] \in {NoFile, Unreadable}
    \/ calculateMD5(Render(d, task[d].fm, task[d].res)) # calculateMD5(files[d])

\* C9: the output file is written iff force mode is on, or skip-if-identical is
\* off, or no readable file exists at the path, or the hash of the rendered
\* output differs from the hash of the file; a skipped write leaves the file
\* unchanged and the document is not counted as new.
C9_WriteIffChanged ==
    [][\A d \in Docs :
         (task[d].pc = "write" /\ task'[d].pc # "write" /\ run' = run) =>
            IF MustWrite(d)
            THEN \/ /\ files'[d] = Render(d, task[d].fm, task[d].res)
                    /\ runWrites' = runWrites + 1
                    /\ stats'.docsNew = stats.docsNew + 1
                 \/ /\ task'[d].err = "write"
                    /\ files' = files
            ELSE /\ files' = files
                 /\ runWrites' = runWrites
                 /\ stats'.docsNew = stats.docsNew
                 /\ task'[d].err = "nil"]_vars

\* the second run found the file of the first run unchanged and skipped the write
C9_Witness ==
    \E d \in Docs :
        /\ run = 2
        /\ task[d].pc = "exited"
        /\ task[d].err = "nil"
        /\ task[d].pages > 0
        /\ ~cfg.forceDownload /\ cfg.skipDuplicate
        /\ runWrites = 0
        /\ stats.docsNew = 0
        /\ files[d] = Render(d, task[d].fm, task[d].res)

\* C10: a second run against the unchanged remote tree, with no failure in either
\* run, writes no document file, uploads no asset, and reports newDocs = 0 and
\* newImages = 0.
C10_SecondRunIdempotent ==
    (run = 2 /\ mainPc = "returned" /\ retErr = "nil" /\ ~faulted
       /\ ~cfg.forceDownload /\ cfg.skipDuplicate) =>
        /\ runWrites = 0
        /\ runUploads = 0
        /\ stats.docsNew = 0
        /\ stats.imagesNew = 0


\* C11: within one document every image token, however often it occurs in the
\* body, causes at most one remote download and at most one upload.
C11_TokenResolvedOnce ==
    \A d \in Docs : \A t \in Tokens : task[d].dl[t] <= 1 /\ task[d].up[t] <= 1

\* a token that occurs twice in the body was downloaded once and uploaded once
C11_Witness ==
    \E d \in Docs : \E t \in Tokens :
        /\ Cardinality({i \in 1..Len(remote[d].body) : remote[d].body[i] = t}) >= 2
        /\ task[d].pc = "times"
        /\ task[d].dl[t] = 1
        /\ task[d].up[t] = 1


C16_FailedImageUnresolved ==
    \A d \in Docs : \A t \in UniqueTokens(d) :
        (/\ task[d].pc \in {"write", "deferDone", "deferSem", "exited"}
         /\ task[d].res[t] \in {"fail", "upfail"}) =>
            /\ TokenLink(task[d].res[t]) = "none"
            /\ \A i \in 1..Len(remote[d].body) :
                 remote[d].body[i] = t =>
                    Render(d, task[d].fm, task[d].res)[3 + i] = LinkCode(t, "none")


UploadsInFlight == Cardinality({<<d, t>> \in Docs \X Tokens : t \in Uploading(d)})

\* C17: at every moment of a run at most BatchConcurrency (10 in the source)
\* asset uploads are in flight, however many document tasks are uploading.
C17_BoundedUploads ==
    UploadsInFlight <= BatchConcurrency


\* a listing call at its start, over any pages of a node's children
ListInit ==
    /\ \E n \in 1..MaxListPages : \E sizes \in [1..n -> 0..MaxPageItems] :
         pgRemote = PageItems(sizes)
    /\ \E fn \in {"GetChildNodes", "GetWikiNodeList"} :
         lst = [IdleList EXCEPT !.fn = fn,
                                !.pc = IF fn = "GetChildNodes" THEN "loop" ELSE "first"]

InitList == ListInit /\ SyncIdle /\ RLIdle /\ TreeFlat /\ CacheIdle /\ ReportIdle /\ CollideIdle
           /\ LateIdle

NextList ==
    \/ \E ok \in BOOLEAN : GetChildNodesRequest(ok)
    \/ \E ok \in BOOLEAN : GetWikiNodeListFirst(ok)
    \/ \E ok \in BOOLEAN : GetWikiNodeListNext(ok)
    \/ GetWikiNodeListReturn

SpecList == InitList /\ [][NextList]_vars

\* two sibling documents whose titles sanitize to the same name, each task about
\* to write its rendered document; the file may exist already
CollideInit ==
    /\ cfg \in [forceDownload : BOOLEAN, skipDuplicate : BOOLEAN, picgoEnabled : {FALSE}]
    /\ remote = [d \in Docs |->
                   [type |-> IF d \in Colliders THEN "docx" ELSE "sheet",
                    objType |-> "docx", hasChild |-> FALSE,
                    pages |-> 1, body |-> <<>>, timesAvail |-> TRUE]]
    /\ run = 1
    /\ clock = 1
    /\ files = [d \in Docs |-> NoFile]
    /\ imgFiles = {}
    /\ imgDir = FALSE
    /\ cacheFile = {}
    /\ faulted = FALSE
    /\ ProcessStart
    /\ \E n1 \in CollidingTitles : \E n2 \in CollidingTitles \ {n1} :
         tree = [d \in Docs |->
                   [parent |-> Root,
                    name |-> IF d = 1 THEN n1 ELSE IF d = 2 THEN n2 ELSE <<"a">>]]
    /\ categoryLevel = 0
    /\ allNodes = [i \in 1..NumDocs |-> i]
    /\ pathMap = PathMapOf(allNodes)
    /\ stack = <<>>
    /\ pendingList = NoNode
    /\ listed = [n \in 0..NumDocs |-> IF n = Root THEN 1 ELSE 0]
    /\ opts = [d \in Docs |-> NoOpts]
    /\ OutputPath(1) = OutputPath(2)
    /\ \E len \in [Colliders -> 1..MaxContent] :
         cw = [i \in Colliders |-> [pc |-> "check", content |-> [j \in 1..len[i] |-> i]]]
    /\ target \in {NoTarget, [exists |-> TRUE, data |-> <<1>>, last |-> 0]}

InitCollide == CollideInit /\ RLIdle /\ CacheIdle /\ ReportIdle /\ ListIdle /\ LateIdle

NextCollide ==
    \/ \E i \in Colliders : CwSkipCheck(i)
    \/ \E i \in Colliders : \E ok \in BOOLEAN : CwOpen(i, ok)
    \/ \E i \in Colliders : CwWrite(i)

SpecCollide == InitCollide /\ [][NextCollide]_vars

(***************************************************************************)
(* Claims about tree resolution, paths, tags and categories (SpecTree).    *)
(***************************************************************************)
NodesOf(nodes) == {nodes[i] : i \in 1..Len(nodes)}

\* resolution returned without an error
ResolvedOk == mainPc # "resolve" /\ retErr # "resolve"

\* C13: once the path map is built it has exactly one entry for the root and for
\* every returned node; the root's entry is "." and every other entry is the
\* parent's entry joined with the sanitized title of the node.
C13_PathMapEntries ==
    (ResolvedOk /\ allNodes # <<>>) =>
        /\ DOMAIN pathMap = {Root} \cup NodesOf(allNodes)
        /\ pathMap[Root] = <<".">>
        /\ \A n \in NodesOf(allNodes) :
             /\ tree[n].parent \in DOMAIN pathMap
             /\ pathMap[n] = Join(pathMap[tree[n].parent], SanitizeFileName(tree[n].name))

\* a node three levels below the root whose path has a sanitized and a default name
C13_Witness ==
    /\ ResolvedOk
    /\ \E n \in NodesOf(allNodes) :
         /\ tree[n].parent # Root /\ tree[tree[n].parent].parent # Root
         /\ n \in DOMAIN pathMap
         /\ Len(SplitPath(pathMap[n])) = 3
         /\ \E i \in 1..3 : SplitPath(pathMap[n])[i] = Untitled
         /\ \E i \in 1..3 : SplitPath(pathMap[n])[i] = <<"b", "-", "c">>

\* the nodes reachable from the root through nodes flagged HasChild, in at most k steps
RECURSIVE ReachWithin(_)
ReachWithin(k) ==
    IF k = 0 THEN {}
    ELSE {n \in Docs : \/ tree[n].parent = Root
                       \/ /\ tree[n].parent \in ReachWithin(k - 1)
                          /\ remote[tree[n].parent].hasChild}

\* C14: GetAllChildNodes returns exactly the nodes reachable from the root
\* through nodes flagged as having children, each once and without the root, and
\* lists the children of the root and of every returned flagged node exactly once.
C14_ResolveAllExact ==
    ResolvedOk =>
        /\ NodesOf(allNodes) = ReachWithin(NumDocs)
        /\ Len(allNodes) = Cardinality(ReachWithin(NumDocs))
        /\ Root \notin NodesOf(allNodes)
        /\ listed[Root] = 1
        /\ \A n \in Docs :
             listed[n] = IF n \in ReachWithin(NumDocs) /\ remote[n].hasChild THEN 1 ELSE 0

\* a tree with a leaf below a flagged node, and a node that is not reachable
C14_Witness ==
    /\ ResolvedOk
    /\ Len(allNodes) = NumDocs - 1
    /\ \E n \in NodesOf(allNodes) : tree[n].parent # Root /\ ~remote[n].hasChild
    /\ \E n \in Docs : n \notin NodesOf(allNodes)

\* C15: if a child listing fails during resolution the run returns an error, no
\* document task is launched and no document file is written.
C15_ListingFailureAborts ==
    retErr = "resolve" =>
        /\ mainPc \in {"returned", "exited"}
        /\ \A d \in Docs : task[d] = IdleTask
        /\ wg = 0 /\ sem = 0
        /\ runWrites = 0
        /\ files = [d \in Docs |-> NoFile]

\* the listing of a node below the root failed after the root had been listed
C15_Witness ==
    /\ retErr = "resolve"
    /\ mainPc = "exited"
    /\ allNodes # <<>>
    /\ listed[Root] = 1

\* the sanitized titles of node n and of its ancestors below the root, outermost first
RECURSIVE AncestorNames(_)
AncestorNames(n) ==
    IF n = Root THEN <<>>
    ELSE Append(AncestorNames(tree[n].parent), SanitizeFileName(tree[n].name))

C18_SavedStaysCached ==
    \A g \in Gors : ~(gor[g].mustHit /\ gor[g].res = "miss")


(***************************************************************************)
(* Claims about skipped documents and the report.                          *)
(***************************************************************************)
\* C21: in wiki-tree mode a document node that has at least one child node is
\* skipped: its task never fetches the document's meta data or content, returns
\* no error from a later stage, and its output file is not created or modified.
C21_ParentDocumentSkipped ==
    \A d \in Docs :
        Len(ChildrenOf(d)) > 0 =>
            /\ task[d].pc \notin {"meta", "content", "blocks", "images", "upload",
                                  "times", "write"}
            /\ task[d].pages = 0
            /\ task[d].err \in {"nil", "mkdir"}
            /\ files[d] = NoFile


\* C22: when a wiki-tree run completes without error, the report has an entry
\* for every document that was processed, whatever its outcome (written,
\* unchanged or skipped), documents without images included.
C22_ReportListsEveryDocument ==
    (mainPc \in {"returned", "exited"} /\ retErr = "nil" /\ ~crashed) =>
        \A d \in Docs :
            task[d].pc = "exited" => \E i \in 1..Len(logs) : logs[i].path = d


(***************************************************************************)
(* Claims about paginated listings (SpecList).                             *)
(***************************************************************************)
\* the items of all pages, in page order
RECURSIVE AllPages(_)
AllPages(pgs) == IF pgs = <<>> THEN <<>> ELSE Head(pgs) \o AllPages(Tail(pgs))

\* C23: GetChildNodes returns the items of all pages of the node's children in
\* page order: the first request carries no cursor, each next request carries
\* the cursor returned by the page before it, and no request follows a page that
\* reports no more pages.
C23_ChildNodesAllPages ==
    lst.fn = "GetChildNodes" =>
        /\ Len(lst.reqs) <= Len(pgRemote)
        /\ \A k \in 1..Len(lst.reqs) : lst.reqs[k] = IF k = 1 THEN 0 ELSE k
        /\ lst.pc = "done" =>
              /\ lst.nodes = AllPages(pgRemote)
              /\ Len(lst.reqs) = Len(pgRemote)

\* a listing of three pages, the last of them with items
C23_Witness ==
    /\ lst.fn = "GetChildNodes" /\ lst.pc = "done"
    /\ Len(pgRemote) = 3
    /\ pgRemote[3] # <<>> /\ pgRemote[1] # <<>>
    /\ lst.reqs = <<0, 2, 3>>

\* C24: GetWikiNodeList returns the items of every page of a node's children for
\* any number of pages (one, two, three or more).
C24_WikiNodeListAllPages ==
    (lst.fn = "GetWikiNodeList" /\ lst.pc = "done") => lst.nodes = AllPages(pgRemote)


ImagesAdded(d) ==
    IF /\ task[d].pc \notin {"idle", "images", "upload"}
       /\ \E t \in UniqueTokens(d) : task[d].res[t] \notin {"none", "fail"}
    THEN [total |-> Cardinality(UniqueTokens(d)), new |-> Cardinality(NeedUpload(d))]
    ELSE [total |-> 0, new |-> 0]

RECURSIVE SumTotal(_)
SumTotal(n) == IF n = 0 THEN 0 ELSE ImagesAdded(n).total + SumTotal(n - 1)

RECURSIVE SumNew(_)
SumNew(n) == IF n = 0 THEN 0 ELSE ImagesAdded(n).new + SumNew(n - 1)

AllTasksFinished ==
    /\ nextIdx > Len(allNodes)
    /\ \A d \in Docs : task[d].pc \in {"idle", "exited"}

\* C27: no statistics update is lost under any interleaving of the document
\* tasks: once all tasks have finished, newDocs is the number of document files
\* written in the run, and totalImages and newImages are the sums of what the
\* tasks added.
C27_NoLostStatsUpdate ==
    AllTasksFinished =>
        /\ stats.docsNew = Cardinality({d \in Docs : files[d] # NoFile})
        /\ stats.docsNew = runWrites
        /\ stats.totalImages = SumTotal(NumDocs)
        /\ stats.imagesNew = SumNew(NumDocs)

\* two documents written, each with an image it had to upload
C27_Witness ==
    /\ AllTasksFinished
    /\ stats.docsNew = 2
    /\ stats.totalImages = 2
    /\ stats.imagesNew = 2


(***************************************************************************)
(* Claims about the fan-out of a wiki-tree run.                            *)
(***************************************************************************)
\* C28: no document task is launched before tree resolution has returned the
\* node list and the path map has an entry for the root and every node, and the
\* node list and the path map do not change while a document task is running.
C28_ResolveBeforeLaunch ==
    /\ [](\A d \in Docs :
            task[d].pc # "idle" =>
                /\ mainPc # "resolve"
                /\ stack = <<>> /\ pendingList = NoNode
                /\ DOMAIN pathMap = {Root} \cup NodesOf(allNodes)
                /\ d \in NodesOf(allNodes))
    /\ [][(\E d \in Docs : task[d].pc \notin {"idle", "exited"}) =>
             (allNodes' = allNodes /\ pathMap' = pathMap)]_vars

\* a task at work on a node below the root of a fully resolved tree
C28_Witness ==
    \E d \in Docs :
        /\ task[d].pc = "write"
        /\ Len(allNodes) = NumDocs
        /\ tree[d].parent # Root


(***************************************************************************)
(* Claims about two documents that share a target path (SpecCollide).      *)
(***************************************************************************)
\* C29: two sibling nodes whose titles sanitize to the same string receive the
\* same path value, and once both tasks are over a file at the target path they
\* share holds the complete output of the task that wrote last.
C29_LastWriteWins ==
    /\ pathMap[1] = pathMap[2]
    /\ ((\A i \in Colliders : cw[i].pc \in {"written", "skipped", "failed"})
        /\ target.last # 0)
          => target.data = cw[target.last].content


(***************************************************************************)
(* Claims about the launch loop (SpecSched).                               *)
(***************************************************************************)
\* C30: in a run whose tree was resolved, once the launch loop is over a task
\* has been launched for every discovered docx node and for no node of another
\* kind; a task is started only by the launch loop, for the docx node the loop
\* is at, from the idle state, and a started task is never started again.
C30_OneTaskPerDocument ==
    /\ [](\A d \in Docs :
            /\ (task[d].pc # "idle") => (remote[d].type = "docx" /\ d \in NodesOf(allNodes))
            /\ (mainPc \in {"drain", "returned", "exited"}
                /\ d \in NodesOf(allNodes) /\ remote[d].type = "docx")
                  => task[d].pc # "idle")
    /\ [][\A d \in Docs :
            /\ (task[d].pc # "idle") =>
                  /\ task'[d].pc # "idle"
                  /\ (task'[d].pc = "mkdir" => task[d].pc = "mkdir")
            /\ (task[d].pc = "idle" /\ task'[d].pc # "idle") =>
                  /\ mainPc = "launch" /\ nextIdx <= Len(allNodes)
                  /\ allNodes[nextIdx] = d
                  /\ nextIdx' = nextIdx + 1
                  /\ task'[d].pc = "mkdir"]_vars

\* a finished run over two documents and a node of another kind
C30_Witness ==
    /\ mainPc = "returned" /\ retErr = "nil"
    /\ Len(allNodes) = NumDocs
    /\ Cardinality({d \in Docs : remote[d].type = "docx"}) = NumDocs - 1
    /\ \A d \in Docs : task[d].pc = IF remote[d].type = "docx" THEN "exited" ELSE "idle"


(***************************************************************************)
(* Claims about the category of the frontmatter (SpecTree).                *)
(***************************************************************************)
\* C31: when deriveCategoryFromPath yields no category (level 0, or the path is
\* the root marker) the category of the document's frontmatter is the default
\* label, for every path, paths of one or more segments included.
C31_DefaultCategory ==
    \A d \in Docs :
        (task[d].pc \in {"write", "deferDone", "deferSem", "exited"}
         /\ task[d].err = "nil" /\ ~task[d].panicking
         /\ opts[d].built /\ task[d].cat # <<>>
         /\ deriveCategoryFromPath(opts[d].relDir, categoryLevel) = <<>>)
            => task[d].cat = DefaultCategory


(***************************************************************************)
(* Claims about Allow and AllowN (SpecAllow).                              *)
(***************************************************************************)
\* C32: an Allow/AllowN call that returns false has taken nothing from the
\* per-second bucket and nothing from the per-minute bucket, and a call that
\* returns true has taken n tokens from each.
C32_AllowAllOrNothing ==
    \A c \in Callers :
        /\ caller[c].pc = "false" => (caller[c].secTaken = 0 /\ caller[c].minTaken = 0)
        /\ caller[c].pc = "true" =>
              /\ caller[c].secTaken = caller[c].n * SecUnit
              /\ caller[c].minTaken = caller[c].n * MinUnit


(***************************************************************************)
(* Claims about whole-wiki mode (SpecWiki).                                *)
(***************************************************************************)
\* C33: in downloadWiki no state is reached in which the call has not returned
\* and every goroutine is blocked: the traversal never waits for a semaphore
\* slot that no task can release.
C33_WikiNeverStuck ==
    wiki.pc \in {"walk", "acquire", "drain"} =>
        \/ wiki.pc = "walk"
        \/ wiki.pc = "acquire" /\ wiki.sem < wikiConcurrency
        \/ wiki.pc = "drain" /\ (wiki.closed \/ wiki.wg = 0)
        \/ wiki.pc = "drain" /\ \E d \in WikiDocs : wt[d] = "send"
        \/ \E d \in WikiDocs : wt[d] = "run"


(***************************************************************************)
(* Claims about the image worker pool (SpecPool).                          *)
(***************************************************************************)
\* the tokens of the results collected so far
GotTokens == {pl.got[i].tok : i \in 1..Len(pl.got)}

\* C34: for n unique tokens the pool produces exactly one result per token, the
\* collecting loop ends after n results, and every worker exits once the job
\* channel is closed: none stays blocked on the job or the result channel.
C34_PoolTerminates ==
    /\ [](pl.pc = "done" =>
            /\ Len(pl.got) = pl.n
            /\ GotTokens = 1..pl.n
            /\ pl.results = <<>>
            /\ \A w \in Workers : wk[w].pc \in {"recv", "exit"})
    /\ <>[](pl.pc = "done" /\ \A w \in Workers : wk[w].pc = "exit")

\* more tokens than workers, one download failed, everything collected
C34_Witness ==
    /\ pl.pc = "done" /\ pl.n = MaxImgTokens /\ pl.n > NumWorkers
    /\ \E i \in 1..Len(pl.got) : pl.got[i].out = "failed"
    /\ \A w \in Workers : wk[w].pc = "exit"


(***************************************************************************)
(* Claims about the persisted cache (SpecCache).                           *)
(***************************************************************************)
\* C35: once every persistCache goroutine started during the run has finished,
\* the cache file holds every entry saved during the run and equals the cache in
\* memory, under every interleaving of SaveCache calls and persist goroutines.
C35_PersistedCacheComplete ==
    (/\ saved # {}
     /\ \A g \in Gors : gor[g].pc = "idle"
     /\ \A w \in Writers : writers[w].pc \in {"none", "done"})
        => /\ cacheDisk = "ok"
           /\ saved \subseteq cacheFile
           /\ cacheFile = cacheMem


(***************************************************************************)
(* Claims about documents that share an image directory (SpecUp).          *)
(***************************************************************************)
\* C36: with uploads enabled and two documents processed concurrently in one
\* output directory, when the run has ended every link of a written document
\* for a resolved token is a remote URL or a local path whose file exists.
C36_SharedImageDirLinksValid ==
    (/\ mainPc \in {"returned", "exited"} /\ ~crashed
     /\ \A d \in Docs : task[d].pc \in {"idle", "exited"})
        => \A d \in Docs : \A t \in UniqueTokens(d) :
              (task[d].pc = "exited" /\ task[d].err = "nil"
               /\ TokenLink(task[d].res[t]) = "local")
                 => t \in imgFiles


(***************************************************************************)
(* Claims about --clean-output (SpecClean).                                *)
(***************************************************************************)
\* C37: a wiki-tree run that fails during tree resolution leaves every file that
\* was in the output directory unchanged, with or without --clean-output.
C37_FailedResolveKeepsFiles ==
    retErr = "resolve" =>
        \A d \in Docs : before[d] # NoFile => files[d] = before[d]


(***************************************************************************)
(* Claims about SanitizeFileName (SpecSan).                                *)
(***************************************************************************)
\* C38: for every title the result of SanitizeFileName is not empty, is neither
\* "." nor "..", holds none of / \ : * ? " < > |, is the same in whatever order
\* the replacements are applied, and is left unchanged by a second call; joined
\* to a parent path it adds exactly one segment, so the path of a node at depth d
\* has d segments.
C38_SanitizeFileName ==
    san.pc = "done" =>
        /\ san.out # <<>> /\ san.out # <<".">> /\ san.out # <<".", ".">>
        /\ \A i \in 1..Len(san.out) : san.out[i] \notin Forbidden
        /\ san.out = SanitizeFileName(san.title)
        /\ san.pass = 2 => san.out = san.title
        /\ Len(SplitPath(Join(<<".">>, san.out))) = 1
        /\ \A parent \in {<<"a">>, <<"a", "/", "b">>} :
              Len(SplitPath(Join(parent, san.out))) = Len(SplitPath(parent)) + 1

\* a title of two replaced characters, and a title that becomes the default name
\* and is sanitized again
C38_Witness ==
    /\ san.pc = "done"
    /\ \/ san.pass = 1 /\ san.title = <<"/", "/">> /\ san.out = <<"-", "-">>
       \/ san.pass = 2 /\ san.title = Untitled /\ san.out = Untitled

====
